---- MODULE Spec2Model ----
(***************************************************************************)
(* Aisher: resilient retrieval of error records (SigNozRepository) and the *)
(* TOON tabular encoder (ToonFormatter).                                   *)
(*                                                                         *)
(* The repository is modelled as callers (coroutines on one event loop)    *)
(* sharing one SigNozRepository instance.  A step of the model is the code *)
(* a coroutine runs between two suspension points (await of the connection *)
(* factory, of the query, of asyncio.sleep, of the client's close).        *)
(***************************************************************************)
EXTENDS Integers, Sequences, FiniteSets, TLC

(***************************************************************************)
(* Bounds of the model.                                                    *)
(***************************************************************************)
NumCallers == 2
MaxCalls == 3
MaxRows == 1
MaxRecords == 2
MaxStrLen == 1
MaxEscLen == 3
MaxFieldLen == 2
MaxTraceLen == 4
MaxCfg == 3
MaxNameLen == 2

(***************************************************************************)
(* Program constants.                                                      *)
(***************************************************************************)
MAX_RETRIES == 3
LIMIT_MIN == 1
LIMIT_MAX == 1000
WINDOW_MIN == 1
WINDOW_MAX == 10080

Callers == 1..NumCallers

DEFAULT_LIMIT == 10
DEFAULT_WINDOW == 60

\* The attribute bound the tests of _truncate_json_attribute assume.
TESTED_JSON_ATTR_BOUND == 2000

\* Settings: smart truncation
STACK_MAX_LENGTH == 600
STACK_HEAD_LENGTH == 250
STACK_TAIL_LENGTH == 350

\* Arguments <<limit, time_window_minutes>> the callers try: the four boundaries
\* of the ranges, and the first value outside each of them.
FetchInputs ==
    {<<LIMIT_MIN, WINDOW_MAX>>, <<LIMIT_MAX, WINDOW_MIN>>,
     <<LIMIT_MIN - 1, DEFAULT_WINDOW>>, <<LIMIT_MAX + 1, DEFAULT_WINDOW>>,
     <<DEFAULT_LIMIT, WINDOW_MIN - 1>>, <<DEFAULT_LIMIT, WINDOW_MAX + 1>>}

\* How an awaited collaborator call can fail: DatabaseError, asyncio.TimeoutError,
\* or any other Exception.
FailKinds == {"db", "timeout", "fatal"}

VARIABLES
    client,        \* self._client: 0 is None, otherwise the connection's id
    factoryCalls,  \* invocations of clickhouse_connect.get_async_client
    connFails,     \* invocations of the factory that raised
    created,       \* connections the factory returned
    closeCalls,    \* invocations of close() on a connection
    calls,         \* calls of the repository's methods started so far
    proc,          \* per caller: the call it is running and where it stands
    toonPc,        \* format_tabular: "off", "ready" (arguments chosen) or "done"
    toonIn,        \* the arguments of format_tabular: [data, name]
    toonOut,       \* what format_tabular returned: [raised, out]
    escPc,         \* _escape_string: "off", "ready" (arguments chosen) or "done"
    escIn,         \* the arguments of _escape_string: [value, delimiter]
    escOut,        \* the text _escape_string returned
    truncPc,       \* a truncation helper: "off", "ready" or "done"
    truncIn,       \* its call: [fn, settings, arg]
    truncOut,      \* what it did: [raised, value]
    anPc,          \* analyze_batch: "off", "ready", "calling", "sleeping", "done"
    anIn,          \* its argument errors, a batch of records
    anRetry,       \* retry_count of the innermost activation
    anCalls,       \* acompletion calls made so far
    anWaits,       \* the arguments of asyncio.sleep, in order
    anReplies,     \* how each acompletion call ended, in order
    anPayload,     \* the TOON payload of the latest call
    anOut,         \* what analyze_batch did: [raised, value]
    mainPc,        \* main(): "off", "ready", "fetching", "analyzing", "printing",
                   \* "writing", "closing", "ended"
    mainErrors,    \* the local errors
    mainLog,       \* the steps main has begun and the exceptions raised, in order
    mainRaised,    \* the exception that left main(), "" if none
    dbPc,          \* SigNozRepository(): "off", "ready" or "done"
    dbIn,          \* settings.CLICKHOUSE_DATABASE
    dbOut          \* what the constructor did: [raised, msg, database]

repoVars == <<client, factoryCalls, connFails, created, closeCalls, calls, proc>>
toonVars == <<toonPc, toonIn, toonOut>>
escVars == <<escPc, escIn, escOut>>
truncVars == <<truncPc, truncIn, truncOut>>
anVars == <<anPc, anIn, anRetry, anCalls, anWaits, anReplies, anPayload, anOut>>
mainVars == <<mainPc, mainErrors, mainLog, mainRaised>>
pipeVars == <<anVars, mainVars>>
dbVars == <<dbPc, dbIn, dbOut>>
fnVars == <<escVars, truncVars, pipeVars, dbVars>>
vars == <<repoVars, toonVars, fnVars>>

IdleProc ==
    [op |-> "none", pc |-> "idle", limit |-> 0, window |-> 0, attempt |-> 0,
     outcomes |-> <<>>, waits |-> <<>>, args |-> <<>>, qparams |-> <<>>,
     handle |-> 0, srcRows |-> 0, result |-> "none", rows |-> 0,
     queryOk |-> FALSE, src |-> <<>>, logs |-> <<>>]

----------------------------------------------------------------------------
(***************************************************************************)
(* Values and the truncation helpers.  A string is a sequence of           *)
(* characters; a value is None, a str or an int.  The settings object is a *)
(* record of the fields class Settings declares.                           *)
(***************************************************************************)
None == [t |-> "null", s |-> <<>>, n |-> 0]
StrVal(s) == [t |-> "str", s |-> s, n |-> 0]
IntVal(n) == [t |-> "int", s |-> <<>>, n |-> n]

DigitChars == <<"0", "1", "2", "3", "4", "5", "6", "7", "8", "9">>

\* "not value" for None and for a str
Falsy(v) == v.t = "null" \/ (v.t = "str" /\ v.s = <<>>)

Min(a, b) == IF a <= b THEN a ELSE b

\* s[:n] for n >= 0
PyHead(s, n) == SubSeq(s, 1, Min(n, Len(s)))

\* s[-n:] for n >= 0; -0 is 0, so s[-0:] is s[0:], the whole string
PyTail(s, n) ==
    IF n = 0 THEN s ELSE SubSeq(s, Len(s) - Min(n, Len(s)) + 1, Len(s))

\* "\n...[truncated]...\n"
StackMarker ==
    <<"NL", ".", ".", ".", "[", "t", "r", "u", "n", "c", "a", "t", "e", "d", "]",
      ".", ".", ".", "NL">>

\* "...[truncated]"
JsonMarker ==
    <<".", ".", ".", "[", "t", "r", "u", "n", "c", "a", "t", "e", "d", "]">>

\* settings = Settings(): the truncation fields the class declares, with their
\* defaults.  The class declares no JSON_ATTR_MAX_LENGTH, and extra = 'ignore'
\* drops any such entry of the environment.
Settings ==
    [STACK_MAX_LENGTH |-> STACK_MAX_LENGTH,
     STACK_HEAD_LENGTH |-> STACK_HEAD_LENGTH,
     STACK_TAIL_LENGTH |-> STACK_TAIL_LENGTH]

\* Reading settings.<name> raises AttributeError for an undeclared field.
HasAttr(settings, name) == name \in DOMAIN settings

\* SigNozRepository._truncate_stacktrace
TruncateStacktrace(stacktrace, settings) ==
    IF Falsy(stacktrace) THEN [raised |-> "", value |-> StrVal(<<>>)]
    ELSE IF Len(stacktrace.s) <= settings.STACK_MAX_LENGTH
         THEN [raised |-> "", value |-> stacktrace]
    ELSE [raised |-> "",
          value |-> StrVal(PyHead(stacktrace.s, settings.STACK_HEAD_LENGTH)
                           \o StackMarker
                           \o PyTail(stacktrace.s, settings.STACK_TAIL_LENGTH))]

\* SigNozRepository._truncate_json_attribute
TruncateJsonAttribute(json_str, settings) ==
    IF Falsy(json_str) THEN [raised |-> "", value |-> None]
    ELSE IF ~HasAttr(settings, "JSON_ATTR_MAX_LENGTH")
         THEN [raised |-> "AttributeError", value |-> None]
    ELSE IF Len(json_str.s) <= settings.JSON_ATTR_MAX_LENGTH
         THEN [raised |-> "", value |-> json_str]
    ELSE [raised |-> "",
          value |-> StrVal(PyHead(json_str.s, settings.JSON_ATTR_MAX_LENGTH)
                           \o JsonMarker)]

\* The rows client.query can return.  Of the sixteen columns of the Golden
\* Query a row keeps the identifiers and the columns the loop transforms; the
\* identifiers are never null.
FullRow ==
    [trace_id |-> StrVal(<<"t", "1">>), span_id |-> StrVal(<<"s", "1">>),
     error_type |-> StrVal(<<"E">>), error_message |-> StrVal(<<"m">>),
     stacktrace |-> StrVal(<<"a", "t">>),
     span_attributes |-> StrVal(<<"{", "}">>),
     resource_attributes |-> StrVal(<<"{", "}">>)]

BareRow ==
    [trace_id |-> StrVal(<<"t", "2">>), span_id |-> StrVal(<<"s", "2">>),
     error_type |-> None, error_message |-> None, stacktrace |-> None,
     span_attributes |-> None, resource_attributes |-> None]

BlankRow ==
    [trace_id |-> StrVal(<<"t", "3">>), span_id |-> StrVal(<<"s", "3">>),
     error_type |-> StrVal(<<>>), error_message |-> StrVal(<<>>),
     stacktrace |-> StrVal(<<>>),
     span_attributes |-> StrVal(<<>>), resource_attributes |-> StrVal(<<>>)]

SourceRows == {FullRow, BareRow, BlankRow}

RECURSIVE RowBatchesUpTo(_)
RowBatchesUpTo(n) ==
    IF n = 0 THEN {<<>>}
    ELSE LET shorter == RowBatchesUpTo(n - 1) IN
         shorter \cup {Append(b, r) : b \in shorter, r \in SourceRows}

\* x if x is not None else default
OrDefault(x, default) == IF x.t # "null" THEN x ELSE default

\* The body of the loop over result.result_rows: the two truncations, then
\* ErrorLog(...).  An exception of a helper leaves the loop.
ToErrorLog(row, settings) ==
    LET truncated_stack == TruncateStacktrace(row.stacktrace, settings)
        truncated_span_attrs == TruncateJsonAttribute(row.span_attributes, settings)
        truncated_resource_attrs == TruncateJsonAttribute(row.resource_attributes, settings)
    IN  [raised |-> IF truncated_span_attrs.raised # "" THEN truncated_span_attrs.raised
                    ELSE truncated_resource_attrs.raised,
         log |-> [trace_id |-> row.trace_id, span_id |-> row.span_id,
                  error_type |-> OrDefault(row.error_type, StrVal(<<"U", "n", "k", "n", "o", "w", "n">>)),
                  error_message |-> OrDefault(row.error_message,
                      StrVal(<<"N", "o", " ", "m", "e", "s", "s", "a", "g", "e">>)),
                  stacktrace |-> truncated_stack.value,
                  span_attributes |-> truncated_span_attrs.value,
                  resource_attributes |-> truncated_resource_attrs.value]]

\* logs = [] ... for row in result.result_rows: logs.append(...)
BuildLogs(rows, settings) ==
    LET built == [i \in 1..Len(rows) |-> ToErrorLog(rows[i], settings)] IN
    IF \E i \in 1..Len(rows) : built[i].raised # ""
    THEN [raised |-> built[CHOOSE i \in 1..Len(rows) :
                               /\ built[i].raised # ""
                               /\ \A j \in 1..(i - 1) : built[j].raised = ""].raised,
          logs |-> <<>>]
    ELSE [raised |-> "", logs |-> [i \in 1..Len(rows) |-> built[i].log]]

\* The texts the helpers are applied to: None and, for every length up to the
\* bound, the string "0123..." whose characters tell their positions; and the
\* configurations: every choice of the three stacktrace settings up to MaxCfg.
TraceText(n) == [i \in 1..n |-> DigitChars[((i - 1) % 10) + 1]]
TruncArgs == {None} \cup {StrVal(TraceText(n)) : n \in 0..MaxTraceLen}

SettingsChoices ==
    [STACK_MAX_LENGTH : 0..MaxCfg, STACK_HEAD_LENGTH : 0..MaxCfg,
     STACK_TAIL_LENGTH : 0..MaxCfg]

NoTruncIn == [fn |-> "none", settings |-> Settings, arg |-> None]
NoTruncOut == [raised |-> "", value |-> None]
TruncOff == truncPc = "off" /\ truncIn = NoTruncIn /\ truncOut = NoTruncOut

\* _truncate_stacktrace(stacktrace) is called and returns
TruncateStacktraceCall ==
    /\ truncPc = "ready"
    /\ truncIn.fn = "stack"
    /\ truncPc' = "done"
    /\ truncOut' = TruncateStacktrace(truncIn.arg, truncIn.settings)
    /\ UNCHANGED <<truncIn, dbVars, escVars, toonVars, repoVars, pipeVars>>

\* _truncate_json_attribute(json_str) is called and returns or raises
TruncateJsonAttributeCall ==
    /\ truncPc = "ready"
    /\ truncIn.fn = "json"
    /\ truncPc' = "done"
    /\ truncOut' = TruncateJsonAttribute(truncIn.arg, truncIn.settings)
    /\ UNCHANGED <<truncIn, dbVars, escVars, toonVars, repoVars, pipeVars>>

----------------------------------------------------------------------------
(***************************************************************************)
(* fetch_errors: validation, retry loop and failure classification.        *)
(***************************************************************************)

\* if not (1 <= limit <= 1000) ... if not (1 <= time_window_minutes <= 10080)
ValidParams_open(limit, window) ==
    /\ LIMIT_MIN <= limit /\ limit < LIMIT_MAX
    /\ WINDOW_MIN <= window /\ window < WINDOW_MAX

ValidParams(limit, window) ==
    /\ LIMIT_MIN <= limit /\ limit <= LIMIT_MAX
    /\ WINDOW_MIN <= window /\ window <= WINDOW_MAX

\* for attempt in range(settings.MAX_RETRIES)
InRange_extra(i) == i <= MAX_RETRIES

InRange_fewer(i) == i < MAX_RETRIES - 1

InRange(i) == i < MAX_RETRIES

\* except (DatabaseError, asyncio.TimeoutError)
IsRetryable_any(e) == e \in FailKinds

IsRetryable(e) == e \in {"db", "timeout"}

\* if attempt < settings.MAX_RETRIES - 1
ShouldBackoff_always(i) == TRUE

ShouldBackoff(i) == i < MAX_RETRIES - 1

\* wait_time = 2 ** attempt
BackoffWait_linear(i) == 2 * i

BackoffWait(i) == 2 ^ i

\* return await self._fetch_errors_internal(...): the records of the attempt
FetchReturn_dropped(pr, n) ==
    [pr EXCEPT !.pc = "done", !.result = "empty", !.rows = 0,
               !.outcomes = Append(@, "ok")]

FetchReturn(pr, n) ==
    [pr EXCEPT !.pc = "done", !.result = "records", !.rows = n,
               !.outcomes = Append(@, "ok")]

\* self._client is None
NeedsCreate_always(c) == TRUE

NeedsCreate(c) == c = 0

\* if self._client:
HasClient_always(c) == TRUE

HasClient(c) == c # 0

\* What a caller does with the handle _get_client returned, up to its next
\* suspension point: fetch and ping issue their query, a direct call returns.
WithClient(pr, c) ==
    IF pr.op = "get_client"
    THEN [pr EXCEPT !.handle = c, !.pc = "done", !.result = "client"]
    ELSE IF pr.op = "fetch"
    THEN [pr EXCEPT !.handle = c, !.pc = "querying",
                    !.qparams = <<pr.limit, pr.window * 60>>]
    ELSE IF pr.op = "with"
    THEN [pr EXCEPT !.handle = c, !.pc = "body"]
    ELSE [pr EXCEPT !.handle = c, !.pc = "querying"]

\* _get_client as far as its first suspension point: with a handle it returns at
\* once, without one it awaits the factory.
\* Returns <<the caller's record, the number of factory invocations made>>.
GetClient(pr, c) ==
    IF NeedsCreate(c)
    THEN <<[pr EXCEPT !.pc = "connecting"], 1>>
    ELSE <<WithClient(pr, c), 0>>

\* One iteration of the retry loop up to its first suspension point, or the
\* return [] after the loop when the range is exhausted.
EnterAttempt(pr, i, c) ==
    IF InRange(i)
    THEN GetClient([pr EXCEPT !.attempt = i, !.args = <<pr.limit, pr.window>>], c)
    ELSE <<[pr EXCEPT !.pc = "done", !.result = "empty", !.rows = 0], 0>>

\* The except clauses of the retry loop, for a failure e of the attempt.
OnFailure(pr, e, c) ==
    LET failed == [pr EXCEPT !.outcomes = Append(@, e)] IN
    IF IsRetryable(e)
    THEN IF ShouldBackoff(pr.attempt)
         THEN <<[failed EXCEPT !.pc = "sleeping",
                               !.waits = Append(@, BackoffWait(pr.attempt))], 0>>
         ELSE EnterAttempt(failed, pr.attempt + 1, c)
    ELSE <<[failed EXCEPT !.pc = "done", !.result = "empty", !.rows = 0], 0>>

Idle(p) == proc[p].pc = "idle"

Begin(op, limit, window) ==
    [IdleProc EXCEPT !.op = op, !.limit = limit, !.window = window]

\* fetch_errors(limit, time_window_minutes) up to its first suspension point
FetchCall(p, limit, window) ==
    /\ Idle(p)
    /\ calls < MaxCalls
    /\ calls' = calls + 1
    /\ IF ValidParams(limit, window)
       THEN LET r == EnterAttempt(Begin("fetch", limit, window), 0, client) IN
            /\ proc' = [proc EXCEPT ![p] = r[1]]
            /\ factoryCalls' = factoryCalls + r[2]
       ELSE /\ proc' = [proc EXCEPT ![p] = [Begin("fetch", limit, window) EXCEPT
                                               !.pc = "done", !.result = "ValueError"]]
            /\ UNCHANGED factoryCalls
    /\ UNCHANGED <<client, connFails, created, closeCalls, toonVars, fnVars>>

\* asyncio.sleep(wait_time) is over: the next iteration of the loop
WakeUp(p) ==
    /\ proc[p].pc = "sleeping"
    /\ LET r == EnterAttempt(proc[p], proc[p].attempt + 1, client) IN
       /\ proc' = [proc EXCEPT ![p] = r[1]]
       /\ factoryCalls' = factoryCalls + r[2]
    /\ UNCHANGED <<client, connFails, created, closeCalls, calls, toonVars, fnVars>>

----------------------------------------------------------------------------
(***************************************************************************)
(* _get_client, ping, close.                                               *)
(***************************************************************************)

\* await self._get_client() called directly
GetClientCall(p) ==
    /\ Idle(p)
    /\ calls < MaxCalls
    /\ calls' = calls + 1
    /\ LET r == GetClient(Begin("get_client", 0, 0), client) IN
       /\ proc' = [proc EXCEPT ![p] = r[1]]
       /\ factoryCalls' = factoryCalls + r[2]
    /\ UNCHANGED <<client, connFails, created, closeCalls, toonVars, fnVars>>

\* ping's except Exception: log and return False
OnPingFailure_retry(pr) ==
    IF pr.attempt < MAX_RETRIES - 1
    THEN [pr EXCEPT !.pc = "querying", !.attempt = @ + 1]
    ELSE [pr EXCEPT !.pc = "done", !.result = "False"]

OnPingFailure(pr) == [pr EXCEPT !.pc = "done", !.result = "False"]

\* ping() up to its first suspension point
PingCall(p) ==
    /\ Idle(p)
    /\ calls < MaxCalls
    /\ calls' = calls + 1
    /\ LET r == GetClient(Begin("ping", 0, 0), client) IN
       /\ proc' = [proc EXCEPT ![p] = r[1]]
       /\ factoryCalls' = factoryCalls + r[2]
    /\ UNCHANGED <<client, connFails, created, closeCalls, toonVars, fnVars>>

\* The factory returned a connection: self._client = ...; return self._client
ConnectOk(p) ==
    /\ proc[p].pc = "connecting"
    /\ created' = created + 1
    /\ client' = created + 1
    /\ proc' = [proc EXCEPT ![p] = WithClient(proc[p], created + 1)]
    /\ UNCHANGED <<factoryCalls, connFails, closeCalls, calls, toonVars, fnVars>>

\* self._client when the factory raised: the assignment never took place
ClientAfterFailure_stored(c) == c + 1

ClientAfterFailure(c) == c

\* The factory raised: self._client stays as it was and the exception is re-raised
\* into the caller (the retry loop's except clauses, ping's except, or out).
ConnectFail(p, e) ==
    /\ proc[p].pc = "connecting"
    /\ connFails' = connFails + 1
    /\ client' = ClientAfterFailure(client)
    /\ IF proc[p].op = "fetch"
       THEN LET r == OnFailure(proc[p], e, ClientAfterFailure(client)) IN
            /\ proc' = [proc EXCEPT ![p] = r[1]]
            /\ factoryCalls' = factoryCalls + r[2]
       ELSE /\ proc' = [proc EXCEPT ![p] = IF proc[p].op = "ping"
                                           THEN OnPingFailure(proc[p])
                                           ELSE [proc[p] EXCEPT !.pc = "done",
                                                                !.result = "raised"]]
            /\ UNCHANGED factoryCalls
    /\ UNCHANGED <<created, closeCalls, calls, toonVars, fnVars>>

\* client.query(...) returned within the timeout; for fetch_errors with the
\* given rows, which the loop of _fetch_errors_internal turns into records.  An
\* exception of the loop is a failure of the attempt that is neither a
\* DatabaseError nor a timeout.
QueryOk(p, rows) ==
    /\ proc[p].pc = "querying"
    /\ IF proc[p].op = "fetch"
       THEN LET built == BuildLogs(rows, Settings)
                got == [proc[p] EXCEPT !.srcRows = Len(rows), !.src = rows,
                                       !.queryOk = TRUE]
            IN  IF built.raised = ""
                THEN /\ proc' = [proc EXCEPT ![p] =
                                    FetchReturn([got EXCEPT !.logs = built.logs], Len(rows))]
                     /\ UNCHANGED factoryCalls
                ELSE LET r == OnFailure(got, "fatal", client) IN
                     /\ proc' = [proc EXCEPT ![p] = r[1]]
                     /\ factoryCalls' = factoryCalls + r[2]
       ELSE /\ rows = <<>>
            /\ proc' = [proc EXCEPT ![p].pc = "done", ![p].result = "True"]
            /\ UNCHANGED factoryCalls
    /\ UNCHANGED <<client, connFails, created, closeCalls, calls, toonVars, fnVars>>

\* client.query(...) raised, or asyncio.wait_for raised TimeoutError
QueryFail(p, e) ==
    /\ proc[p].pc = "querying"
    /\ IF proc[p].op = "fetch"
       THEN LET r == OnFailure(proc[p], e, client) IN
            /\ proc' = [proc EXCEPT ![p] = r[1]]
            /\ factoryCalls' = factoryCalls + r[2]
       ELSE /\ proc' = [proc EXCEPT ![p] = OnPingFailure(proc[p])]
            /\ UNCHANGED factoryCalls
    /\ UNCHANGED <<client, connFails, created, closeCalls, calls, toonVars, fnVars>>

\* close() up to its suspension point: if self._client: await self._client.close()
\* (calling .close() on None would raise AttributeError)
CloseCall(p) ==
    /\ Idle(p)
    /\ calls < MaxCalls
    /\ calls' = calls + 1
    /\ proc' = [proc EXCEPT ![p] =
                  IF HasClient(client)
                  THEN IF client = 0
                       THEN [Begin("close", 0, 0) EXCEPT !.pc = "done", !.result = "raised"]
                       ELSE [Begin("close", 0, 0) EXCEPT !.pc = "closing", !.handle = client]
                  ELSE [Begin("close", 0, 0) EXCEPT !.pc = "done", !.result = "ok"]]
    /\ UNCHANGED <<client, factoryCalls, connFails, created, closeCalls, toonVars, fnVars>>

\* What leaves the call when close() has returned: for close() itself nothing;
\* for the async with statement, __aexit__ returns False, so an exception of
\* the body goes on.
ExitResult_suppressed(pr) == "ok"

ExitResult(pr) == IF pr.op = "with" /\ pr.outcomes = <<"raised">> THEN "raised" ELSE "ok"

\* the connection's close() returned: self._client is left as it is
CloseDone(p) ==
    /\ proc[p].pc = "closing"
    /\ closeCalls' = closeCalls + 1
    /\ proc' = [proc EXCEPT ![p].pc = "done", ![p].result = ExitResult(proc[p])]
    /\ UNCHANGED <<client, factoryCalls, connFails, created, calls, toonVars, fnVars>>

\* async with repo: __aenter__ awaits _get_client() and returns self
WithCall(p) ==
    /\ Idle(p)
    /\ calls < MaxCalls
    /\ calls' = calls + 1
    /\ LET r == GetClient(Begin("with", 0, 0), client) IN
       /\ proc' = [proc EXCEPT ![p] = r[1]]
       /\ factoryCalls' = factoryCalls + r[2]
    /\ UNCHANGED <<client, connFails, created, closeCalls, toonVars, fnVars>>

\* The body of the async with statement completes (o = "ok") or raises
\* (o = "raised"): __aexit__ awaits close()
WithBodyEnds(p, o) ==
    /\ proc[p].pc = "body"
    /\ LET ended == [proc[p] EXCEPT !.outcomes = <<o>>] IN
       proc' = [proc EXCEPT ![p] =
                  IF HasClient(client)
                  THEN [ended EXCEPT !.pc = "closing", !.handle = client]
                  ELSE [ended EXCEPT !.pc = "done", !.result = ExitResult(ended)]]
    /\ UNCHANGED <<client, factoryCalls, connFails, created, closeCalls, calls, toonVars,
                   fnVars>>

\* The caller has taken what its call returned or raised and may call again.
Return(p) ==
    /\ proc[p].pc = "done"
    /\ proc' = [proc EXCEPT ![p] = IdleProc]
    /\ UNCHANGED <<client, factoryCalls, connFails, created, closeCalls, calls, toonVars, fnVars>>

----------------------------------------------------------------------------
(***************************************************************************)
(* ToonFormatter.  The characters the escaping treats specially are        *)
(* written "BS" (backslash), "DQ" (double quote), "NL", "CR", "TAB".  A    *)
(* record (model_dump()) is a sequence of <<key, value>> pairs in the      *)
(* order of the model's fields.                                            *)
(***************************************************************************)
RECURSIVE IntToStr(_)
IntToStr(n) ==
    IF n < 10 THEN <<DigitChars[n + 1]>>
    ELSE IntToStr(n \div 10) \o <<DigitChars[(n % 10) + 1]>>

\* str(value)
Str(v) ==
    IF v.t = "null" THEN <<"N", "o", "n", "e">>
    ELSE IF v.t = "int" THEN IntToStr(v.n)
    ELSE v.s

\* s.replace(c, rep) for a single character c
RECURSIVE Replace(_, _, _)
Replace(s, c, rep) ==
    IF s = <<>> THEN <<>>
    ELSE (IF Head(s) = c THEN rep ELSE <<Head(s)>>) \o Replace(Tail(s), c, rep)

\* s.count(c)
RECURSIVE CountChar(_, _)
CountChar(s, c) ==
    IF s = <<>> THEN 0
    ELSE (IF Head(s) = c THEN 1 ELSE 0) + CountChar(Tail(s), c)

Contains(s, c) == \E i \in 1..Len(s) : s[i] = c

\* sep.join(parts)
RECURSIVE Join(_, _)
Join(parts, sep) ==
    IF parts = <<>> THEN <<>>
    ELSE IF Len(parts) = 1 THEN parts[1]
    ELSE parts[1] \o sep \o Join(Tail(parts), sep)

\* The chain of replace calls of _escape_string, in its order.
EscapeChars_rawNewline(s) ==
    Replace(Replace(Replace(Replace(s,
        "BS", <<"BS", "BS">>),
        "DQ", <<"BS", "DQ">>),
        "CR", <<"BS", "r">>),
        "TAB", <<"BS", "t">>)

EscapeChars_tabToSpace(s) ==
    Replace(Replace(Replace(Replace(Replace(s,
        "BS", <<"BS", "BS">>),
        "DQ", <<"BS", "DQ">>),
        "NL", <<"BS", "n">>),
        "CR", <<"BS", "r">>),
        "TAB", <<" ">>)

EscapeChars_rawTab(s) ==
    Replace(Replace(Replace(Replace(s,
        "BS", <<"BS", "BS">>),
        "DQ", <<"BS", "DQ">>),
        "NL", <<"BS", "n">>),
        "CR", <<"BS", "r">>)

EscapeChars(s) ==
    Replace(Replace(Replace(Replace(Replace(s,
        "BS", <<"BS", "BS">>),
        "DQ", <<"BS", "DQ">>),
        "NL", <<"BS", "n">>),
        "CR", <<"BS", "r">>),
        "TAB", <<"BS", "t">>)

StructuralChars == {"{", "}", ":", "[", "]"}

\* needs_quotes, evaluated on the escaped string
NeedsQuotes_noTrailingSpace(val, delimiter) ==
    \/ Contains(val, delimiter)
    \/ (val # <<>> /\ val[1] = " ")
    \/ val = <<>>
    \/ \E c \in StructuralChars : Contains(val, c)

NeedsQuotes(val, delimiter) ==
    \/ Contains(val, delimiter)
    \/ (val # <<>> /\ val[1] = " ")
    \/ (val # <<>> /\ val[Len(val)] = " ")
    \/ val = <<>>
    \/ \E c \in StructuralChars : Contains(val, c)

\* ToonFormatter._escape_string
EscapeString_noEscape(value, delimiter) ==
    IF value.t = "null" THEN <<"n", "u", "l", "l">>
    ELSE LET val == Str(value) IN
         IF NeedsQuotes(val, delimiter) THEN <<"DQ">> \o val \o <<"DQ">> ELSE val

EscapeString(value, delimiter) ==
    IF value.t = "null" THEN <<"n", "u", "l", "l">>
    ELSE LET val == EscapeChars(Str(value)) IN
         IF NeedsQuotes(val, delimiter) THEN <<"DQ">> \o val \o <<"DQ">> ELSE val

Keys(row) == [i \in 1..Len(row) |-> row[i][1]]
HasKey(row, k) == \E i \in 1..Len(row) : row[i][1] = k
Lookup(row, k) == row[CHOOSE i \in 1..Len(row) : row[i][1] = k][2]

\* [str(v) for row in dicts for v in row.values()]
RECURSIVE AllValueStrings(_)
AllValueStrings(dicts) ==
    IF dicts = <<>> THEN <<>>
    ELSE [i \in 1..Len(dicts[1]) |-> Str(dicts[1][i][2])] \o AllValueStrings(Tail(dicts))

SampleText(dicts) == Join(AllValueStrings(dicts), <<" ">>)

\* '|' if comma_count > pipe_count * 2 else ','
UsePipe_atLeast(comma_count, pipe_count) == comma_count >= pipe_count * 2

UsePipe(comma_count, pipe_count) == comma_count > pipe_count * 2

SelectDelimiter(dicts) ==
    IF UsePipe(CountChar(SampleText(dicts), ","), CountChar(SampleText(dicts), "|"))
    THEN "|" ELSE ","

\* f"{array_name}[{count}{delim_marker}]{{{','.join(headers)}}}:"
HeaderLine_delimiterJoined(array_name, count, delimiter, headers) ==
    array_name \o <<"[">> \o IntToStr(count)
        \o (IF delimiter = "|" THEN <<"|">> ELSE <<>>)
        \o <<"]", "{">> \o Join(headers, <<delimiter>>) \o <<"}", ":">>

HeaderLine(array_name, count, delimiter, headers) ==
    array_name \o <<"[">> \o IntToStr(count)
        \o (IF delimiter = "|" THEN <<"|">> ELSE <<>>)
        \o <<"]", "{">> \o Join(headers, <<",">>) \o <<"}", ":">>

\* One data line: the escaped values of the header's columns, joined.
RowLine_commaJoined(row, headers, delimiter) ==
    Join([i \in 1..Len(headers) |-> EscapeString(Lookup(row, headers[i]), delimiter)],
         <<",">>)

RowLine(row, headers, delimiter) ==
    Join([i \in 1..Len(headers) |-> EscapeString(Lookup(row, headers[i]), delimiter)],
         <<delimiter>>)

\* ToonFormatter.format_tabular; row[k] raises KeyError for a missing column.
FormatTabular(data, array_name) ==
    IF data = <<>>
    THEN [raised |-> "", out |-> array_name \o <<"[", "0", "]", ":">>]
    ELSE LET headers == Keys(data[1])
             delimiter == SelectDelimiter(data)
         IN  IF \E r \in 1..Len(data), i \in 1..Len(headers) : ~HasKey(data[r], headers[i])
             THEN [raised |-> "KeyError", out |-> <<>>]
             ELSE [raised |-> "",
                   out |-> Join(<<HeaderLine(array_name, Len(data), delimiter, headers)>>
                                \o [r \in 1..Len(data) |-> RowLine(data[r], headers, delimiter)],
                                <<"NL">>)]

\* The strings of at most n characters over a set of characters.
RECURSIVE StringsOver(_, _)
StringsOver(chars, n) ==
    IF n = 0 THEN {<<>>}
    ELSE LET shorter == StringsOver(chars, n - 1) IN
         shorter \cup {Append(s, c) : s \in shorter, c \in chars}

\* The batches format_tabular is applied to.
ToonChars == {",", "|", "NL"}

RECURSIVE StringsUpTo(_)
StringsUpTo(n) ==
    IF n = 0 THEN {<<>>}
    ELSE LET shorter == StringsUpTo(n - 1) IN
         shorter \cup {Append(s, c) : s \in shorter, c \in ToonChars}

TraceIdValues == {StrVal(<<"7">>), StrVal(<<",">>)}
MessageValues == {StrVal(s) : s \in StringsUpTo(MaxStrLen)} \cup {None, IntVal(12)}

ToonRecords ==
    {<< <<(<<"i", "d">>), a>>, <<(<<"m", "s", "g">>), b>> >> :
        a \in TraceIdValues, b \in MessageValues}

RECURSIVE BatchesUpTo(_)
BatchesUpTo(n) ==
    IF n = 0 THEN {<<>>}
    ELSE LET shorter == BatchesUpTo(n - 1) IN
         shorter \cup {Append(b, r) : b \in shorter, r \in ToonRecords}

ArrayNames == {<<"e", "r", "r", "o", "r", "s">>}

\* Batches whose values hold quotes, backslashes, delimiters and spaces, and
\* batches of records of different models: the second record lacks a column
\* of the first, or has one more.
QuoteChars == {",", "|", "DQ", "BS", " "}
QuoteValues == {StrVal(s) : s \in StringsOver(QuoteChars, MaxFieldLen)} \cup {None}

QuoteRecords ==
    {<< <<(<<"i", "d">>), a>>, <<(<<"m", "s", "g">>), b>> >> :
        a \in QuoteValues, b \in QuoteValues}

QuoteBatches == {<<r>> : r \in QuoteRecords}

Narrow(r) == <<r[1]>>
Wide(r) == Append(r, <<(<<"e", "x">>), None>>)

MixedBatches ==
    {<<r, Narrow(q)>> : r \in ToonRecords, q \in ToonRecords}
        \cup {<<r, Wide(q)>> : r \in ToonRecords, q \in ToonRecords}

NoToonIn == [data |-> <<>>, name |-> <<>>]
NoToonOut == [raised |-> "", out |-> <<>>]

\* format_tabular(data, array_name) is called and returns
FormatTabularCall ==
    /\ toonPc = "ready"
    /\ toonPc' = "done"
    /\ toonOut' = FormatTabular(toonIn.data, toonIn.name)
    /\ UNCHANGED <<toonIn, repoVars, fnVars>>

\* The values and delimiters _escape_string is applied to: every string over
\* the characters the function treats specially and a plain one, the string
\* "null", an int, and None.
EscChars == {"BS", "DQ", "NL", "CR", "TAB", " ", ",", "|", ":", "n"}

NullText == StrVal(<<"n", "u", "l", "l">>)
EscValues == {StrVal(s) : s \in StringsOver(EscChars, MaxEscLen)} \cup {None, NullText, IntVal(12)}
Delimiters == {",", "|"}

NoEscIn == [value |-> None, delimiter |-> ","]

\* _escape_string(value, delimiter) is called and returns
EscapeStringCall ==
    /\ escPc = "ready"
    /\ escPc' = "done"
    /\ escOut' = EscapeString(escIn.value, escIn.delimiter)
    /\ UNCHANGED <<escIn, dbVars, truncVars, toonVars, repoVars, pipeVars>>

EscOff == escPc = "off" /\ escIn = NoEscIn /\ escOut = <<>>

----------------------------------------------------------------------------
(***************************************************************************)
(* BatchAnalyzer.analyze_batch.  A JSON object is a function from its keys *)
(* to values.  An acompletion call ends in a timeout of wait_for, in an    *)
(* exception, or in a response; a response has no choice or one choice     *)
(* whose content is None or a text, and json.loads tells the texts apart.  *)
(***************************************************************************)
ExceptionLogs == <<"e", "x", "c", "e", "p", "t", "i", "o", "n", "_", "l", "o", "g", "s">>

\* The batches analyze_batch is given.
AnRecords ==
    {<< <<(<<"i", "d">>), a>>, <<(<<"m", "s", "g">>), None>> >> : a \in TraceIdValues}

RECURSIVE AnBatchesUpTo(_)
AnBatchesUpTo(n) ==
    IF n = 0 THEN {<<>>}
    ELSE LET shorter == AnBatchesUpTo(n - 1) IN
         shorter \cup {Append(b, r) : b \in shorter, r \in AnRecords}

\* The JSON objects the LLM may answer: the expected keys, none of them, some
\* of them, an unexpected key, and a key named _meta.
ObjectKeySets ==
    {{}, {"root_cause"}, {"root_cause", "severity"}, {"note"}, {"_meta", "root_cause"}}

JsonObjects == {[k \in ks |-> <<"llm", k>>] : ks \in ObjectKeySets}

\* response.choices[0].message.content: None or a text, a text being a JSON
\* object, another JSON value (an array), an empty string, or not JSON.
Contents ==
    {[kind |-> "object", obj |-> o] : o \in JsonObjects}
        \cup {[kind |-> k, obj |-> <<>>] : k \in {"none", "array", "empty", "partial", "invalid"}}

LlmReplies ==
    {[how |-> h, content |-> [kind |-> "none", obj |-> <<>>]] :
        h \in {"timeout", "raised", "nochoices"}}
        \cup {[how |-> "content", content |-> c] : c \in Contents}

ReplyTag(r) == IF r.how = "content" THEN r.content.kind ELSE r.how

\* json.loads(content)
JsonLoads(content) ==
    IF content.kind = "none" THEN [raised |-> "TypeError", isDict |-> FALSE, value |-> <<>>]
    ELSE IF content.kind = "object" THEN [raised |-> "", isDict |-> TRUE, value |-> content.obj]
    ELSE IF content.kind = "array" THEN [raised |-> "", isDict |-> FALSE, value |-> <<>>]
    ELSE [raised |-> "JSONDecodeError", isDict |-> FALSE, value |-> <<>>]

\* result["_meta"] = {...}
Meta(errors) == [model |-> "LLM_MODEL", analyzed_at |-> "utcnow", error_count |-> Len(errors)]

WithMeta_only(result, errors) == [k \in {"_meta"} |-> Meta(errors)]

WithMeta(result, errors) ==
    [k \in DOMAIN result \cup {"_meta"} |->
        IF k = "_meta" THEN Meta(errors) ELSE result[k]]

\* if retry_count < settings.MAX_RETRIES
MayRetry_fewer(retry_count) == retry_count < MAX_RETRIES - 1

MayRetry(retry_count) == retry_count < MAX_RETRIES

\* await asyncio.sleep(2 ** retry_count)
RetryWait_constant(retry_count) == 1

RetryWait(retry_count) == 2 ^ retry_count

TimedOut == [error |-> "LLM Analysis Timed Out", retry_exhausted |-> TRUE]
InvalidJson == [error |-> "Invalid LLM response format", details |-> "str(e)"]
Failed == [error |-> "LLM Interaction Failed: str(e)"]

\* The body of the try block after the await, and the except clauses other
\* than the timeout's: what analyze_batch returns for a reply.
Returned_unchecked(r, errors) ==
    IF r.how \in {"raised", "nochoices"} THEN Failed
    ELSE LET result == JsonLoads(r.content) IN
         IF result.raised = "JSONDecodeError" THEN InvalidJson
         ELSE WithMeta(result.value, errors)

Returned_noMeta(r, errors) ==
    IF r.how \in {"raised", "nochoices"} THEN Failed
    ELSE LET result == JsonLoads(r.content) IN
         IF result.raised = "JSONDecodeError" THEN InvalidJson
         ELSE IF result.raised # "" \/ ~result.isDict THEN Failed
         ELSE result.value

Returned(r, errors) ==
    IF r.how \in {"raised", "nochoices"} THEN Failed
    ELSE LET result == JsonLoads(r.content) IN
         IF result.raised = "JSONDecodeError" THEN InvalidJson
         ELSE IF result.raised # "" \/ ~result.isDict THEN Failed
         ELSE WithMeta(result.value, errors)

NoAnOut == [raised |-> "", value |-> <<>>]

\* analyze_batch(errors, retry_count) up to its await: the payload is built
\* outside the try block, so an exception of format_tabular leaves the call.
AnEnter(errors, retry_count) ==
    LET toon_payload == FormatTabular(errors, ExceptionLogs) IN
    /\ anIn' = errors
    /\ anRetry' = retry_count
    /\ IF toon_payload.raised # ""
       THEN /\ anPc' = "done"
            /\ anOut' = [raised |-> toon_payload.raised, value |-> <<>>]
            /\ UNCHANGED <<anCalls, anPayload>>
       ELSE /\ anPc' = "calling"
            /\ anCalls' = anCalls + 1
            /\ anPayload' = toon_payload.out
            /\ UNCHANGED anOut

\* analyze_batch(errors) is called
AnalyzeBatchCall ==
    /\ anPc = "ready"
    /\ AnEnter(anIn, 0)
    /\ UNCHANGED <<anWaits, anReplies, mainVars, dbVars, escVars, truncVars, toonVars, repoVars>>

\* The awaited acompletion call ends with the reply r.
LlmReply(r) ==
    /\ anPc = "calling"
    /\ anReplies' = Append(anReplies, r)
    /\ IF r.how = "timeout"
       THEN IF MayRetry(anRetry)
            THEN /\ anPc' = "sleeping"
                 /\ anWaits' = Append(anWaits, RetryWait(anRetry))
                 /\ UNCHANGED anOut
            ELSE /\ anPc' = "done"
                 /\ anOut' = [raised |-> "", value |-> TimedOut]
                 /\ UNCHANGED anWaits
       ELSE /\ anPc' = "done"
            /\ anOut' = [raised |-> "", value |-> Returned(r, anIn)]
            /\ UNCHANGED anWaits
    /\ UNCHANGED <<anIn, anRetry, anCalls, anPayload, mainVars, dbVars, escVars, truncVars,
                   toonVars, repoVars>>

\* asyncio.sleep is over: return await self.analyze_batch(errors, retry_count + 1)
AnWakeUp ==
    /\ anPc = "sleeping"
    /\ AnEnter(anIn, anRetry + 1)
    /\ UNCHANGED <<anWaits, anReplies, mainVars, dbVars, escVars, truncVars, toonVars, repoVars>>

AnOff ==
    /\ anPc = "off" /\ anIn = <<>> /\ anRetry = 0 /\ anCalls = 0 /\ anWaits = <<>>
    /\ anReplies = <<>> /\ anPayload = <<>> /\ anOut = NoAnOut

MainOff == mainPc = "off" /\ mainErrors = <<>> /\ mainLog = <<>> /\ mainRaised = ""

DbOff == dbPc = "off" /\ dbIn = <<>> /\ dbOut = [raised |-> "", msg |-> "", database |-> <<>>]

PipeOff == AnOff /\ MainOff /\ DbOff

----------------------------------------------------------------------------
(***************************************************************************)
(* main(): fetch, analysis, output, and in the finally clause the close of *)
(* the repository.  mainLog holds, in order, the steps main has begun and  *)
(* the exceptions its steps have raised; mainRaised is the exception on    *)
(* its way out of main, "" when there is none.                             *)
(***************************************************************************)

\* What an awaited step may raise: an Exception, a KeyboardInterrupt, and an
\* exception that is neither (asyncio.CancelledError).
Raisables == {"Exception", "KeyboardInterrupt", "CancelledError"}

\* except KeyboardInterrupt: ... except Exception as e: ...
Handled_exceptionOnly(e) == e = "Exception"

Handled(e) == e \in {"KeyboardInterrupt", "Exception"}

\* if not errors: return
NoErrors_never(errors) == FALSE

NoErrors(errors) == errors = <<>>

\* The try block is left: by return or its end (e = ""), or by the exception
\* e, which a matching except clause ends; the finally clause calls
\* repo.close().
Finally(e) ==
    /\ mainPc' = "closing"
    /\ mainLog' = (IF e = "" THEN mainLog ELSE Append(mainLog, e)) \o <<"close">>
    /\ mainRaised' = IF e = "" \/ Handled(e) THEN "" ELSE e

\* main() up to its first await: repo.fetch_errors(limit=10, time_window_minutes=60)
MainStart ==
    /\ mainPc = "ready"
    /\ mainPc' = "fetching"
    /\ mainLog' = Append(mainLog, "fetch")
    /\ UNCHANGED <<mainErrors, mainRaised, anVars, dbVars, escVars, truncVars, toonVars, repoVars>>

\* fetch_errors returned: nothing to analyse, or analyzer.analyze_batch(errors)
MainFetchReturns(errors) ==
    /\ mainPc = "fetching"
    /\ mainErrors' = errors
    /\ IF NoErrors(errors)
       THEN /\ Finally("")
            /\ UNCHANGED anVars
       ELSE /\ mainPc' = "analyzing"
            /\ mainLog' = Append(mainLog, "analyze")
            /\ AnEnter(errors, 0)
            /\ UNCHANGED <<mainRaised, anWaits, anReplies>>
    /\ UNCHANGED <<dbVars, escVars, truncVars, toonVars, repoVars>>

\* fetch_errors raised e
MainFetchRaises(e) ==
    /\ mainPc = "fetching"
    /\ Finally(e)
    /\ UNCHANGED <<mainErrors, anVars, dbVars, escVars, truncVars, toonVars, repoVars>>

\* e is raised in analyze_batch while it awaits the LLM or sleeps; no except
\* clause of analyze_batch is in force for it.
MainAnalysisRaises(e) ==
    /\ mainPc = "analyzing"
    /\ anPc \in {"calling", "sleeping"}
    /\ anPc' = "done"
    /\ anOut' = [raised |-> e, value |-> <<>>]
    /\ UNCHANGED <<anIn, anRetry, anCalls, anWaits, anReplies, anPayload, mainVars,
                   dbVars, escVars, truncVars, toonVars, repoVars>>

\* analyze_batch returned or raised: the report is printed
MainAnalysisDone ==
    /\ mainPc = "analyzing"
    /\ anPc = "done"
    /\ IF anOut.raised # ""
       THEN Finally(anOut.raised)
       ELSE /\ mainPc' = "printing"
            /\ mainLog' = Append(mainLog, "print")
            /\ UNCHANGED mainRaised
    /\ UNCHANGED <<mainErrors, anVars, dbVars, escVars, truncVars, toonVars, repoVars>>

\* the prints are done: the report file is opened and written
MainPrintOk ==
    /\ mainPc = "printing"
    /\ mainPc' = "writing"
    /\ mainLog' = Append(mainLog, "write")
    /\ UNCHANGED <<mainErrors, mainRaised, anVars, dbVars, escVars, truncVars, toonVars, repoVars>>

\* print raised (an OSError or UnicodeEncodeError of stdout)
MainPrintFails ==
    /\ mainPc = "printing"
    /\ Finally("Exception")
    /\ UNCHANGED <<mainErrors, anVars, dbVars, escVars, truncVars, toonVars, repoVars>>

\* the report is written: the end of the try block
MainWriteOk ==
    /\ mainPc = "writing"
    /\ Finally("")
    /\ UNCHANGED <<mainErrors, anVars, dbVars, escVars, truncVars, toonVars, repoVars>>

\* open() or json.dump raised (an OSError)
MainWriteFails ==
    /\ mainPc = "writing"
    /\ Finally("Exception")
    /\ UNCHANGED <<mainErrors, anVars, dbVars, escVars, truncVars, toonVars, repoVars>>

\* repo.close() returned: main ends, with the exception no clause has ended
MainCloseReturns ==
    /\ mainPc = "closing"
    /\ mainPc' = "ended"
    /\ UNCHANGED <<mainErrors, mainLog, mainRaised, anVars, dbVars, escVars, truncVars, toonVars,
                   repoVars>>

\* repo.close() raised: its exception leaves main
MainCloseRaises ==
    /\ mainPc = "closing"
    /\ mainPc' = "ended"
    /\ mainLog' = Append(mainLog, "CloseError")
    /\ mainRaised' = "CloseError"
    /\ UNCHANGED <<mainErrors, anVars, dbVars, escVars, truncVars, toonVars, repoVars>>

----------------------------------------------------------------------------
(***************************************************************************)
(* SigNozRepository.__init__ and _validate_database_name.                  *)
(***************************************************************************)
UpperLetters ==
    <<"A", "B", "C", "D", "E", "F", "G", "H", "I", "J", "K", "L", "M",
      "N", "O", "P", "Q", "R", "S", "T", "U", "V", "W", "X", "Y", "Z">>
LowerLetters ==
    <<"a", "b", "c", "d", "e", "f", "g", "h", "i", "j", "k", "l", "m",
      "n", "o", "p", "q", "r", "s", "t", "u", "v", "w", "x", "y", "z">>

IsLetter(c) == \E i \in 1..26 : UpperLetters[i] = c \/ LowerLetters[i] = c
IsAlnumChar(c) == IsLetter(c) \/ \E d \in 1..10 : DigitChars[d] = c

\* str.isalnum(): every character is alphanumeric and there is at least one
IsAlnum(s) == s # <<>> /\ \A i \in 1..Len(s) : IsAlnumChar(s[i])

\* str.lower()
LowerChar(c) ==
    IF \E i \in 1..26 : UpperLetters[i] = c
    THEN LowerLetters[CHOOSE i \in 1..26 : UpperLetters[i] = c]
    ELSE c

Lower(s) == IF s = <<>> THEN <<>> ELSE [i \in 1..Len(s) |-> LowerChar(s[i])]

\* 'system' and 'information_schema'
RestrictedNames ==
    {<<"s", "y", "s", "t", "e", "m">>,
     <<"i", "n", "f", "o", "r", "m", "a", "t", "i", "o", "n", "_", "s", "c", "h", "e", "m", "a">>}

\* _validate_database_name(name): the message of the ValueError it raises, ""
\* when it returns.
ValidateDatabaseName(name) ==
    IF ~IsAlnum(Replace(name, "_", <<>>)) THEN "Invalid database name"
    ELSE IF Lower(name) \in RestrictedNames THEN "Restricted database"
    ELSE ""

\* The names tried: every string of up to MaxNameLen characters over a lower
\* case letter, an upper case letter, a digit, the underscore and three other
\* characters; the restricted names in three letter cases; names next to them;
\* and the names of the tests.
DbNameChars == {"a", "S", "7", "_", "-", ";", " "}

NamedDbNames ==
    {<<"s", "y", "s", "t", "e", "m">>,
     <<"S", "Y", "S", "T", "E", "M">>,
     <<"S", "y", "s", "t", "e", "m">>,
     <<"i", "n", "f", "o", "r", "m", "a", "t", "i", "o", "n", "_", "s", "c", "h", "e", "m", "a">>,
     <<"I", "N", "F", "O", "R", "M", "A", "T", "I", "O", "N", "_", "S", "C", "H", "E", "M", "A">>,
     <<"I", "n", "f", "o", "r", "m", "a", "t", "i", "o", "n", "_", "S", "c", "h", "e", "m", "a">>,
     <<"s", "y", "s", "t", "e", "m", "s">>,
     <<"_", "s", "y", "s", "t", "e", "m">>,
     <<"s", "y", "s", "t", "e", "m", "_">>,
     <<"s", "i", "g", "n", "o", "z", "_", "t", "r", "a", "c", "e", "s">>,
     <<"m", "y", "_", "d", "b", "_", "1", "2", "3">>,
     <<"d", "b", ";", "D", "R", "O", "P", " ", "T", "A", "B", "L", "E">>,
     <<"d", "b", "-", "w", "i", "t", "h", "-", "d", "a", "s", "h", "e", "s">>,
     <<"_", "_", "_">>}

DbNames == StringsOver(DbNameChars, MaxNameLen) \cup NamedDbNames

\* SigNozRepository(): the constructor validates settings.CLICKHOUSE_DATABASE
\* and keeps it as self.database.
ConstructRepository ==
    /\ dbPc = "ready"
    /\ dbPc' = "done"
    /\ LET msg == ValidateDatabaseName(dbIn) IN
       dbOut' = IF msg # ""
                THEN [raised |-> "ValueError", msg |-> msg, database |-> <<>>]
                ELSE [raised |-> "", msg |-> "", database |-> dbIn]
    /\ UNCHANGED <<dbIn, escVars, truncVars, pipeVars, toonVars, repoVars>>

----------------------------------------------------------------------------
RepoInit ==
    /\ client = 0
    /\ factoryCalls = 0
    /\ connFails = 0
    /\ created = 0
    /\ closeCalls = 0
    /\ calls = 0
    /\ proc = [p \in Callers |-> IdleProc]

Init ==
    /\ RepoInit
    /\ toonPc = "off"
    /\ toonIn = NoToonIn
    /\ toonOut = NoToonOut
    /\ EscOff
    /\ TruncOff
    /\ PipeOff

Next ==
    \E p \in Callers :
        \/ \E a \in FetchInputs : FetchCall(p, a[1], a[2])
        \/ WakeUp(p)
        \/ GetClientCall(p)
        \/ PingCall(p)
        \/ ConnectOk(p)
        \/ \E e \in FailKinds : ConnectFail(p, e)
        \/ \E rows \in RowBatchesUpTo(MaxRows) : QueryOk(p, rows)
        \/ \E e \in FailKinds : QueryFail(p, e)
        \/ CloseCall(p)
        \/ CloseDone(p)
        \/ Return(p)

\* Any interleaving of the callers' steps.
Spec == Init /\ [][Next]_vars

\* Sequential histories: a call starts only when no other call is in flight.
Quiet == \A q \in Callers : Idle(q)

NextSeq ==
    \E p \in Callers :
        \/ Quiet /\ \E a \in FetchInputs : FetchCall(p, a[1], a[2])
        \/ WakeUp(p)
        \/ Quiet /\ GetClientCall(p)
        \/ Quiet /\ PingCall(p)
        \/ ConnectOk(p)
        \/ \E e \in FailKinds : ConnectFail(p, e)
        \/ \E rows \in RowBatchesUpTo(MaxRows) : QueryOk(p, rows)
        \/ \E e \in FailKinds : QueryFail(p, e)
        \/ Quiet /\ CloseCall(p)
        \/ CloseDone(p)
        \/ Return(p)

SpecSeq == Init /\ [][NextSeq]_vars

\* Concurrent fetch_errors calls on one repository: every caller makes one
\* call with the default arguments, and the callers' steps interleave in any
\* order.  Creating the connection fails with a database error, a query with
\* a timeout or with an error that is not retried.
NextFetchers ==
    \E p \in Callers :
        \/ FetchCall(p, DEFAULT_LIMIT, DEFAULT_WINDOW)
        \/ WakeUp(p)
        \/ ConnectOk(p)
        \/ ConnectFail(p, "db")
        \/ QueryOk(p, <<BareRow>>)
        \/ \E e \in {"timeout", "fatal"} : QueryFail(p, e)

SpecFetchers == Init /\ [][NextFetchers]_vars

\* Sequential histories that also use the repository as an async context
\* manager.
NextWith ==
    \/ NextSeq
    \/ \E p \in Callers :
          \/ Quiet /\ WithCall(p)
          \/ \E o \in {"ok", "raised"} : WithBodyEnds(p, o)

SpecWith == Init /\ [][NextWith]_vars

\* What a call awaits comes to an end: the factory returns or raises within
\* connect_timeout, the query returns or raises within the timeout of wait_for,
\* asyncio.sleep returns, the connection's close() returns.
AwaitEnds(p) ==
    \/ WakeUp(p)
    \/ ConnectOk(p)
    \/ \E e \in FailKinds : ConnectFail(p, e)
    \/ \E rows \in RowBatchesUpTo(MaxRows) : QueryOk(p, rows)
    \/ \E e \in FailKinds : QueryFail(p, e)
    \/ CloseDone(p)

SpecSeqFair == SpecSeq /\ \A p \in Callers : WF_vars(AwaitEnds(p))

SpecWithFair == SpecWith /\ \A p \in Callers : WF_vars(AwaitEnds(p))

\* format_tabular applied to every batch of the bounded input set.
InitToon ==
    /\ RepoInit
    /\ toonPc = "ready"
    /\ toonIn \in [data : BatchesUpTo(MaxRecords), name : ArrayNames]
    /\ toonOut = NoToonOut
    /\ EscOff
    /\ TruncOff
    /\ PipeOff

NextToon == FormatTabularCall

SpecToon == InitToon /\ [][NextToon]_vars

\* format_tabular applied to the batches with quoting and with mixed records.
InitToonEdge ==
    /\ RepoInit
    /\ toonPc = "ready"
    /\ toonIn \in [data : QuoteBatches \cup MixedBatches, name : ArrayNames]
    /\ toonOut = NoToonOut
    /\ EscOff
    /\ TruncOff
    /\ PipeOff

SpecToonEdge == InitToonEdge /\ [][NextToon]_vars

ToonOff == toonPc = "off" /\ toonIn = NoToonIn /\ toonOut = NoToonOut

\* analyze_batch applied to every batch of the bounded input set, under every
\* sequence of replies of the LLM.
InitAnalyzer ==
    /\ RepoInit
    /\ DbOff
    /\ ToonOff
    /\ EscOff
    /\ TruncOff
    /\ MainOff
    /\ anPc = "ready"
    /\ anIn \in AnBatchesUpTo(MaxRecords)
    /\ anRetry = 0 /\ anCalls = 0 /\ anWaits = <<>>
    /\ anReplies = <<>> /\ anPayload = <<>> /\ anOut = NoAnOut

NextAnalyzer ==
    \/ AnalyzeBatchCall
    \/ \E r \in LlmReplies : LlmReply(r)
    \/ AnWakeUp

SpecAnalyzer == InitAnalyzer /\ [][NextAnalyzer]_vars

\* wait_for ends every acompletion call at LLM_TIMEOUT at the latest and
\* asyncio.sleep ends: a call of analyze_batch that has not come to its end
\* moves on.
AnProgress ==
    /\ anPc \in {"ready", "calling", "sleeping"}
    /\ anPc' \in {"calling", "sleeping", "done"}

SpecAnalyzerFair == SpecAnalyzer /\ WF_anPc(AnProgress)

\* The constructor applied to every name of the bounded input set.
InitDbName ==
    /\ RepoInit
    /\ ToonOff
    /\ EscOff
    /\ TruncOff
    /\ AnOff
    /\ MainOff
    /\ dbPc = "ready"
    /\ dbIn \in DbNames
    /\ dbOut = [raised |-> "", msg |-> "", database |-> <<>>]

NextDbName == ConstructRepository

SpecDbName == InitDbName /\ [][NextDbName]_vars

\* Persistent timeouts: fetch_errors with its default arguments and
\* analyze_batch, on a source whose every query and an LLM whose every call
\* ends in asyncio.TimeoutError.
TimeoutReply == [how |-> "timeout", content |-> [kind |-> "none", obj |-> <<>>]]

NextTimeouts ==
    \/ \E p \in Callers :
          \/ Quiet /\ FetchCall(p, DEFAULT_LIMIT, DEFAULT_WINDOW)
          \/ ConnectOk(p)
          \/ QueryFail(p, "timeout")
          \/ WakeUp(p)
          \/ Return(p)
    \/ AnalyzeBatchCall
    \/ LlmReply(TimeoutReply)
    \/ AnWakeUp

SpecTimeouts == InitAnalyzer /\ [][NextTimeouts]_vars

\* main() with every behaviour of its collaborators: of fetch_errors, of the
\* LLM behind analyze_batch, of the output and of close().
InitMain ==
    /\ RepoInit
    /\ DbOff
    /\ ToonOff
    /\ EscOff
    /\ TruncOff
    /\ AnOff
    /\ mainPc = "ready" /\ mainErrors = <<>> /\ mainLog = <<>> /\ mainRaised = ""

NextMain ==
    \/ MainStart
    \/ \E errors \in AnBatchesUpTo(MaxRecords) : MainFetchReturns(errors)
    \/ \E e \in Raisables : MainFetchRaises(e)
    \/ \E r \in LlmReplies : LlmReply(r)
    \/ AnWakeUp
    \/ \E e \in Raisables : MainAnalysisRaises(e)
    \/ MainAnalysisDone
    \/ MainPrintOk
    \/ MainPrintFails
    \/ MainWriteOk
    \/ MainWriteFails
    \/ MainCloseReturns
    \/ MainCloseRaises

SpecMain == InitMain /\ [][NextMain]_vars

\* Every awaited step of main ends (the fetch by C26's bounds, the analysis by
\* the timeouts of analyze_batch) and the synchronous steps run: a main() that
\* has not ended moves on.
MainProgress ==
    /\ mainPc \in {"ready", "fetching", "analyzing", "printing", "writing", "closing"}
    /\ mainPc' \in {"fetching", "analyzing", "printing", "writing", "closing", "ended"}
    /\ anPc' \in {"off", "calling", "sleeping", "done"}

SpecMainFair == SpecMain /\ WF_<<mainPc, anPc>>(MainProgress)

\* The truncation helpers applied to every text and configuration of the
\* bounded input sets.
InitTrunc ==
    /\ RepoInit
    /\ ToonOff
    /\ EscOff
    /\ truncPc = "ready"
    /\ truncIn \in [fn : {"stack", "json"}, settings : SettingsChoices, arg : TruncArgs]
    /\ truncOut = NoTruncOut
    /\ PipeOff

NextTrunc == TruncateStacktraceCall \/ TruncateJsonAttributeCall

SpecTrunc == InitTrunc /\ [][NextTrunc]_vars

\* _escape_string applied to every value of the bounded input set.
InitEscape ==
    /\ RepoInit
    /\ ToonOff
    /\ TruncOff
    /\ escPc = "ready"
    /\ escIn \in [value : EscValues, delimiter : Delimiters]
    /\ escOut = <<>>
    /\ PipeOff

NextEscape == EscapeStringCall

SpecEscape == InitEscape /\ [][NextEscape]_vars

----------------------------------------------------------------------------
(***************************************************************************)
(* Properties of fetch_errors.                                             *)
(***************************************************************************)
Fetching(p) == proc[p].op = "fetch" /\ proc[p].result # "ValueError"

Retryables(o) == {i \in 1..Len(o) : o[i] \in {"db", "timeout"}}

\* C1: a fetch_errors call whose attempts all failed with DatabaseError or a
\* timeout has made exactly MAX_RETRIES attempts when it returns, returns an
\* empty list and raises nothing; no call makes more than MAX_RETRIES attempts.
C1_ExhaustsRetries ==
    \A p \in Callers :
        Fetching(p) =>
            /\ Len(proc[p].outcomes) <= MAX_RETRIES
            /\ proc[p].result # "raised"
            /\ (proc[p].pc = "done"
                /\ Retryables(proc[p].outcomes) = 1..Len(proc[p].outcomes))
               => /\ Len(proc[p].outcomes) = MAX_RETRIES
                  /\ proc[p].result = "empty"
                  /\ proc[p].rows = 0

C1_Witness ==
    \E p \in Callers :
        /\ Fetching(p) /\ proc[p].pc = "done"
        /\ proc[p].outcomes = <<"db", "timeout", "db">>
        /\ proc[p].result = "empty"

\* C2: once an attempt of fetch_errors has succeeded, after k < MAX_RETRIES
\* retryable failures, the call is over: that attempt is the last one (k+1
\* attempts in all) and the call returns the rows of that attempt.
C2_ReturnsFirstSuccess ==
    \A p \in Callers :
        (Fetching(p) /\ \E i \in 1..Len(proc[p].outcomes) : proc[p].outcomes[i] = "ok")
        => LET o == proc[p].outcomes IN
           /\ proc[p].pc = "done"
           /\ o[Len(o)] = "ok"
           /\ Retryables(o) = 1..(Len(o) - 1)
           /\ Len(o) <= MAX_RETRIES
           /\ proc[p].result = "records"
           /\ proc[p].rows = proc[p].srcRows

C2_Witness ==
    \E p \in Callers :
        /\ Fetching(p) /\ proc[p].pc = "done"
        /\ proc[p].outcomes = <<"db", "timeout", "ok">>
        /\ proc[p].result = "records" /\ proc[p].rows = 1

\* C3: a failure of an attempt that is neither a DatabaseError nor a timeout ends
\* fetch_errors at once, at any attempt index: it is the last attempt, no wait
\* follows it, and the call returns an empty list without raising.
C3_FatalNoRetry ==
    \A p \in Callers :
        (Fetching(p) /\ \E i \in 1..Len(proc[p].outcomes) : proc[p].outcomes[i] = "fatal")
        => LET o == proc[p].outcomes IN
           /\ proc[p].pc = "done"
           /\ o[Len(o)] = "fatal"
           /\ Retryables(o) = 1..(Len(o) - 1)
           /\ Len(proc[p].waits) = Len(o) - 1
           /\ proc[p].result = "empty"
           /\ proc[p].rows = 0

C3_Witness ==
    \E p \in Callers :
        /\ Fetching(p) /\ proc[p].pc = "done"
        /\ proc[p].outcomes = <<"db", "timeout", "fatal">>
        /\ proc[p].waits = <<1, 2>>
        /\ proc[p].result = "empty"

\* C4: fetch_errors raises ValueError exactly when limit is outside 1..1000 or
\* time_window_minutes outside 1..10080; a call that raises makes no attempt, no
\* wait, and leaves the connection handle and the factory untouched; a call in
\* range makes its attempts with exactly its limit and time window.
C4_InRange(limit, window) == limit \in 1..1000 /\ window \in 1..10080

C4_State ==
    \A p \in Callers :
        proc[p].op = "fetch" =>
            /\ proc[p].result = "ValueError" <=> ~C4_InRange(proc[p].limit, proc[p].window)
            /\ proc[p].result = "ValueError" =>
                  /\ proc[p].pc = "done"
                  /\ proc[p].outcomes = <<>> /\ proc[p].waits = <<>>
                  /\ proc[p].args = <<>> /\ proc[p].qparams = <<>>
                  /\ proc[p].handle = 0
            /\ proc[p].result # "ValueError" =>
                  /\ proc[p].args = <<proc[p].limit, proc[p].window>>
                  /\ proc[p].qparams \in {<<>>, <<proc[p].limit, 60 * proc[p].window>>}

C4_Step ==
    \A p \in Callers :
        (proc'[p] # proc[p] /\ proc'[p].result = "ValueError")
        => UNCHANGED <<client, factoryCalls, connFails, created, closeCalls>>

C5_Backoff ==
    \A p \in Callers :
        Fetching(p) =>
            LET o == proc[p].outcomes
                w == proc[p].waits
            IN  /\ Len(w) = Cardinality({i \in Retryables(o) : i - 1 < MAX_RETRIES - 1})
                /\ \A j \in 1..Len(w) : w[j] = 2 ^ (j - 1)
                /\ proc[p].pc \in {"connecting", "querying"}
                   => proc[p].attempt = Len(w) /\ Len(o) = Len(w)
                /\ proc[p].pc = "sleeping"
                   => /\ Len(o) = Len(w)
                      /\ proc[p].attempt = Len(w) - 1
                      /\ o[Len(o)] \in {"db", "timeout"}

C5_Witness ==
    \E p \in Callers :
        /\ Fetching(p) /\ proc[p].pc = "done"
        /\ proc[p].outcomes = <<"timeout", "db", "timeout">>
        /\ proc[p].waits = <<1, 2>>

----------------------------------------------------------------------------
(***************************************************************************)
(* Properties of the connection handle.                                    *)
(***************************************************************************)

\* C6: on one repository, however the calls interleave, the factory returns at
\* most one connection.
C6_AtMostOneConnection == created <= 1

C8_SequentialReuse ==
    /\ created <= 1
    /\ client = created
    /\ \A p \in Callers : proc[p].handle \in {0, client}
    /\ created = 1 => factoryCalls = connFails + 1
    /\ \A p \in Callers :
          (proc[p].pc = "done" /\ proc[p].result \in {"records", "True", "client"})
          => proc[p].handle = 1

C8_Witness ==
    /\ created = 1 /\ factoryCalls = 2 /\ connFails = 1
    /\ calls = 3
    /\ \E p \in Callers :
          proc[p].op = "ping" /\ proc[p].result = "True" /\ proc[p].handle = 1

----------------------------------------------------------------------------
(***************************************************************************)
(* Properties of format_tabular, read off the string it returns.           *)
(***************************************************************************)
RECURSIVE SplitOn(_, _)
SplitOn(s, c) ==
    IF ~Contains(s, c) THEN <<s>>
    ELSE LET i == CHOOSE k \in 1..Len(s) :
                      s[k] = c /\ \A j \in 1..(k - 1) : s[j] # c
         IN  <<SubSeq(s, 1, i - 1)>> \o SplitOn(SubSeq(s, i + 1, Len(s)), c)

IsDigit(c) == \E d \in 1..10 : DigitChars[d] = c

\* The longest prefix of s made of digits, and the number it writes.
RECURSIVE LeadingDigits(_)
LeadingDigits(s) ==
    IF s = <<>> \/ ~IsDigit(Head(s)) THEN <<>>
    ELSE <<Head(s)>> \o LeadingDigits(Tail(s))

RECURSIVE DecimalValue(_)
DecimalValue(ds) ==
    IF ds = <<>> THEN 0
    ELSE 10 * DecimalValue(SubSeq(ds, 1, Len(ds) - 1))
         + ((CHOOSE d \in 1..10 : DigitChars[d] = ds[Len(ds)]) - 1)

ToonLines == SplitOn(toonOut.out, "NL")
ToonFormatted == toonPc = "done" /\ toonOut.raised = ""

\* What follows "name[" in the header line.
AfterBracket == SubSeq(ToonLines[1], Len(toonIn.name) + 2, Len(ToonLines[1]))
HeaderCount == DecimalValue(LeadingDigits(AfterBracket))
HeaderMarker == AfterBracket[Len(LeadingDigits(AfterBracket)) + 1]

\* Occurrences of character c in the str values of the batch, all columns of all
\* records (None and the ints hold neither a comma nor a pipe).
Occurrences(data, c) ==
    Cardinality({<<r, i, j>> \in (1..Len(data)) \X (1..2) \X (1..(MaxStrLen + 1)) :
                    /\ i <= Len(data[r])
                    /\ j <= Len(data[r][i][2].s)
                    /\ data[r][i][2].s[j] = c})

\* Occurrences of the delimiter d in a line outside double-quoted sections, a
\* backslash escaping the character after it.
RECURSIVE TopLevelCount(_, _, _, _)
TopLevelCount(s, i, quoted, d) ==
    IF i > Len(s) THEN 0
    ELSE IF s[i] = "BS" THEN TopLevelCount(s, i + 2, quoted, d)
    ELSE IF s[i] = "DQ" THEN TopLevelCount(s, i + 1, ~quoted, d)
    ELSE (IF s[i] = d /\ ~quoted THEN 1 ELSE 0) + TopLevelCount(s, i + 1, quoted, d)

\* C9: for a batch of n >= 1 records the string format_tabular returns splits on
\* newline into n+1 lines and its header starts "name[n"; for the empty batch it
\* is exactly "name[0]:".
C9_LineCount ==
    ToonFormatted =>
        LET n == Len(toonIn.data) IN
        IF n = 0
        THEN /\ toonOut.out = toonIn.name \o <<"[", "0", "]", ":">>
             /\ Len(ToonLines) = 1
        ELSE /\ Len(ToonLines) = n + 1
             /\ SubSeq(ToonLines[1], 1, Len(toonIn.name) + 1) = toonIn.name \o <<"[">>
             /\ HeaderCount = n
             /\ HeaderCount = Len(ToonLines) - 1

C9_Witness ==
    /\ ToonFormatted
    /\ Len(toonIn.data) = 2
    /\ Occurrences(toonIn.data, "NL") >= 2
    /\ Len(ToonLines) = 3

\* C10: the header carries the pipe marker exactly when the commas in the values
\* of the batch number more than twice the pipes, and every data line is joined
\* with the delimiter the header announces.
C10_DelimiterChoice ==
    (ToonFormatted /\ Len(toonIn.data) >= 1) =>
        LET commas == Occurrences(toonIn.data, ",")
            pipes == Occurrences(toonIn.data, "|")
            delimiter == IF HeaderMarker = "|" THEN "|" ELSE ","
        IN  /\ HeaderMarker \in {"|", "]"}
            /\ HeaderMarker = "|" <=> commas > 2 * pipes
            /\ \A r \in 2..Len(ToonLines) :
                  TopLevelCount(ToonLines[r], 1, FALSE, delimiter)
                      = Len(toonIn.data[1]) - 1

C10_Witness ==
    /\ ToonFormatted
    /\ Len(toonIn.data) = 2
    /\ Occurrences(toonIn.data, ",") = 3
    /\ Occurrences(toonIn.data, "|") = 1
    /\ HeaderMarker = "|"
----------------------------------------------------------------------------
(***************************************************************************)
(* Properties of _escape_string.                                           *)
(***************************************************************************)
EscDone == escPc = "done"

\* The returned text is wrapped in a pair of double quotes.  Every quote the
\* escaping produces follows a backslash, so text that was not wrapped never
\* starts with a quote.
Wrapped(out) == Len(out) >= 2 /\ out[1] = "DQ" /\ out[Len(out)] = "DQ"

\* The conditions of the claim, read on the value's own text.
MustQuote(s, delimiter) ==
    \/ Contains(s, delimiter)
    \/ (s # <<>> /\ s[1] = " ")
    \/ (s # <<>> /\ s[Len(s)] = " ")
    \/ s = <<>>
    \/ \E c \in {"{", "}", ":", "[", "]"} : Contains(s, c)

EscapedChars == {"BS", "DQ", "NL", "CR", "TAB"}
CountIn(s, cs) == Cardinality({i \in 1..Len(s) : s[i] \in cs})

\* C11: a non-null value is wrapped in double quotes exactly when its text
\* contains the delimiter, starts or ends with a space, is empty, or contains
\* one of { } : [ ]; a value with none of these is returned without quotes,
\* with each newline, carriage return, tab, backslash and double quote
\* replaced by a two-character escape.
C11_QuotingRule ==
    (EscDone /\ escIn.value.t # "null") =>
        LET s == Str(escIn.value) IN
        /\ Wrapped(escOut) <=> MustQuote(s, escIn.delimiter)
        /\ ~MustQuote(s, escIn.delimiter) =>
              /\ escOut[1] # "DQ"
              /\ Len(escOut) = Len(s) + CountIn(s, EscapedChars)
              /\ CountIn(escOut, {"NL", "CR", "TAB"}) = 0
              /\ CountIn(escOut, {"BS"}) >= CountIn(s, EscapedChars)

C11_Witness ==
    /\ EscDone
    /\ escIn.value = StrVal(<<"DQ", "NL", "TAB">>)
    /\ escOut = <<"BS", "DQ", "BS", "n", "BS", "t">>

\* Removing the surrounding quotes, when the text has them.
StripQuotes(out) == IF Wrapped(out) THEN SubSeq(out, 2, Len(out) - 1) ELSE out

\* The character a two-character escape stands for.
Unescaped(c) ==
    IF c = "n" THEN "NL" ELSE IF c = "r" THEN "CR" ELSE IF c = "t" THEN "TAB" ELSE c

\* Undoing the substitutions, reading the text from left to right: a
\* backslash and the character after it stand for one character.
RECURSIVE UnescapeChars(_)
UnescapeChars(s) ==
    IF s = <<>> THEN <<>>
    ELSE IF Head(s) = "BS" /\ Len(s) >= 2
         THEN <<Unescaped(s[2])>> \o UnescapeChars(SubSeq(s, 3, Len(s)))
         ELSE <<Head(s)>> \o UnescapeChars(Tail(s))

\* C12: for every string, also one holding backslashes, double quotes,
\* newlines, carriage returns and tabs, undoing the substitutions on the
\* returned text, after removing the surrounding quotes if present, gives
\* back the string.
C12_RoundTrip ==
    (EscDone /\ escIn.value.t = "str") =>
        UnescapeChars(StripQuotes(escOut)) = escIn.value.s

C12_Witness ==
    /\ EscDone
    /\ escIn.value = StrVal(<<"BS", "n", "NL">>)
    /\ escOut = <<"BS", "BS", "n", "BS", "n">>
    /\ UnescapeChars(escOut) = <<"BS", "n", "NL">>

\* C14: for a fixed delimiter, two distinct values drawn from null and the
\* strings never get the same text, so the text tells a null from every
\* string, the string "null" included, and any two strings apart.
C14_Injective ==
    (EscDone /\ escIn.value.t \in {"null", "str"}) =>
        \A w \in EscValues :
            (w.t \in {"null", "str"} /\ w # escIn.value) =>
                EscapeString(w, escIn.delimiter) # escOut

----------------------------------------------------------------------------
(***************************************************************************)
(* Properties of format_tabular's header and rows.                         *)
(***************************************************************************)
\* Every record has the keys of the first record, in its order.
Homogeneous(data) == \A r \in 1..Len(data) : Keys(data[r]) = Keys(data[1])

\* The column names read off the header line, between "{" and "}:".
HeaderColumns ==
    LET h == ToonLines[1]
        open == CHOOSE i \in 1..Len(h) : h[i] = "{" /\ \A j \in 1..(i - 1) : h[j] # "{"
    IN  SplitOn(SubSeq(h, open + 1, Len(h) - 2), ",")

\* The fields of a line: split at the delimiter d outside double-quoted
\* sections, a backslash escaping the character after it.
RECURSIVE SplitFields(_, _, _, _, _)
SplitFields(s, i, quoted, d, cur) ==
    IF i > Len(s) THEN <<cur>>
    ELSE IF s[i] = "BS"
         THEN SplitFields(s, i + 2, quoted, d,
                          cur \o SubSeq(s, i, IF i < Len(s) THEN i + 1 ELSE i))
    ELSE IF s[i] = "DQ" THEN SplitFields(s, i + 1, ~quoted, d, Append(cur, "DQ"))
    ELSE IF s[i] = d /\ ~quoted THEN <<cur>> \o SplitFields(s, i + 1, FALSE, d, <<>>)
    ELSE SplitFields(s, i + 1, quoted, d, Append(cur, s[i]))

\* C13: for a homogeneous batch, every data line splits on the selected
\* delimiter, outside double-quoted sections and with \" not ending a section,
\* into exactly as many fields as the header has columns, and each field is
\* the text of its own column: the field of a string gives the string back.
C13_FieldCount ==
    (ToonFormatted /\ Len(toonIn.data) >= 1 /\ Homogeneous(toonIn.data)) =>
        LET delimiter == IF HeaderMarker = "|" THEN "|" ELSE "," IN
        \A r \in 1..Len(toonIn.data) :
            LET fields == SplitFields(ToonLines[r + 1], 1, FALSE, delimiter, <<>>) IN
            /\ Len(fields) = Len(HeaderColumns)
            /\ \A i \in 1..Len(fields) :
                  toonIn.data[r][i][2].t = "str" =>
                      UnescapeChars(StripQuotes(fields[i])) = toonIn.data[r][i][2].s

C13_Witness ==
    /\ ToonFormatted
    /\ toonIn.data = << << <<(<<"i", "d">>), StrVal(<<"DQ", ",">>)>>,
                           <<(<<"m", "s", "g">>), StrVal(<<"|", "BS">>)>> >> >>
    /\ ToonLines[2] = <<"DQ", "BS", "DQ", ",", "DQ", ",", "|", "BS", "BS">>
    /\ Len(HeaderColumns) = 2

\* The data lines are the records' values, escaped for d and joined by d.
JoinedBy(d) ==
    \A r \in 1..Len(toonIn.data) :
        ToonLines[r + 1] =
            Join([i \in 1..Len(toonIn.data[r]) |-> EscapeString(toonIn.data[r][i][2], d)],
                 <<d>>)

\* C15: for a non-empty batch the header is the array name, "[count|]" when
\* the rows are joined by the pipe and "[count]" when they are joined by the
\* comma, then the keys of the first record in their order, joined by commas
\* in both cases, between "{" and "}:".
C15_Header ==
    (ToonFormatted /\ Len(toonIn.data) >= 1) =>
        /\ JoinedBy("|") \/ JoinedBy(",")
        /\ ToonLines[1] =
              toonIn.name \o <<"[">> \o IntToStr(Len(toonIn.data))
                  \o (IF JoinedBy("|") THEN <<"|", "]">> ELSE <<"]">>)
                  \o <<"{">> \o Join(Keys(toonIn.data[1]), <<",">>) \o <<"}", ":">>

C15_Witness ==
    /\ ToonFormatted
    /\ JoinedBy("|")
    /\ ToonLines[1] = <<"e", "r", "r", "o", "r", "s", "[", "2", "|", "]", "{",
                        "i", "d", ",", "m", "s", "g", "}", ":">>

\* C20: format_tabular does not raise on a heterogeneous batch: when a later
\* record lacks a column of the first record, or has more columns, the call
\* still returns a string, with one line for each record after the header.
C20_NeverRaises ==
    (toonPc = "done" /\ ~Homogeneous(toonIn.data)) =>
        /\ toonOut.raised = ""
        /\ Len(ToonLines) = Len(toonIn.data) + 1

----------------------------------------------------------------------------
(***************************************************************************)
(* Properties of the truncation helpers.                                   *)
(***************************************************************************)
TruncDone(fn) == truncPc = "done" /\ truncIn.fn = fn

\* The first n and the last n characters of s (all of s when it is shorter).
FirstChars(s, n) == [i \in 1..Min(n, Len(s)) |-> s[i]]
LastChars(s, n) == [i \in 1..Min(n, Len(s)) |-> s[Len(s) - Min(n, Len(s)) + i]]

Max(a, b) == IF a >= b THEN a ELSE b

\* C16: _truncate_stacktrace returns "" for a null or empty input, the input
\* itself when its length is at most max_length, and otherwise the first
\* head_length characters, the marker "\n...[truncated]...\n" and the last
\* tail_length characters, for every head_length and tail_length, 0 included.
C16_HeadMarkerTail ==
    TruncDone("stack") =>
        LET st == truncIn.arg
            cfg == truncIn.settings
        IN  /\ truncOut.raised = ""
            /\ truncOut.value.t = "str"
            /\ truncOut.value.s =
                  IF st.t = "null" \/ st.s = <<>> THEN <<>>
                  ELSE IF Len(st.s) <= cfg.STACK_MAX_LENGTH THEN st.s
                  ELSE FirstChars(st.s, cfg.STACK_HEAD_LENGTH)
                           \o StackMarker
                           \o LastChars(st.s, cfg.STACK_TAIL_LENGTH)

\* C17: _truncate_json_attribute never fails: it returns None for a null or
\* empty input, the input itself when its length is at most the attribute
\* bound, and otherwise the first bound characters followed by
\* "...[truncated]".
C17_HeadOnly ==
    TruncDone("json") =>
        LET js == truncIn.arg IN
        /\ truncOut.raised = ""
        /\ truncOut.value =
              IF js.t = "null" \/ js.s = <<>> THEN None
              ELSE IF Len(js.s) <= TESTED_JSON_ATTR_BOUND THEN js
              ELSE StrVal(FirstChars(js.s, TESTED_JSON_ATTR_BOUND) \o JsonMarker)

\* C18: for every configuration and every input, the text _truncate_stacktrace
\* returns is at most max(max_length, head_length + tail_length + 19)
\* characters long, 19 being the length of the marker.
C18_Bounded ==
    TruncDone("stack") =>
        LET cfg == truncIn.settings IN
        Len(truncOut.value.s) <=
            Max(cfg.STACK_MAX_LENGTH,
                cfg.STACK_HEAD_LENGTH + cfg.STACK_TAIL_LENGTH + Len(StackMarker))


----------------------------------------------------------------------------
(***************************************************************************)
(* Properties of the rows fetch_errors returns.                            *)
(***************************************************************************)
\* What the claim expects of the two truncations under the application's
\* configuration.
ExpectedStack(st) ==
    IF st.t = "null" \/ st.s = <<>> THEN StrVal(<<>>)
    ELSE IF Len(st.s) <= STACK_MAX_LENGTH THEN st
    ELSE StrVal(FirstChars(st.s, STACK_HEAD_LENGTH) \o StackMarker
                \o LastChars(st.s, STACK_TAIL_LENGTH))

ExpectedAttr(js) ==
    IF js.t = "null" \/ js.s = <<>> THEN None
    ELSE IF Len(js.s) <= TESTED_JSON_ATTR_BOUND THEN js
    ELSE StrVal(FirstChars(js.s, TESTED_JSON_ATTR_BOUND) \o JsonMarker)

\* C19: when the query of an attempt of fetch_errors succeeds with rows
\* r1..rn, the call returns n records in the same order, record i with the
\* identifiers of row i, "Unknown" for a null error type, "No message" for a
\* null message, the stacktrace truncated head/tail and both attribute texts
\* truncated head-only, whatever the rows hold.
C19_RowsToRecords ==
    \A p \in Callers :
        (proc[p].op = "fetch" /\ proc[p].pc = "done" /\ proc[p].queryOk) =>
            LET rows == proc[p].src
                logs == proc[p].logs
            IN  /\ proc[p].result = "records"
                /\ proc[p].rows = Len(rows)
                /\ Len(logs) = Len(rows)
                /\ \A i \in 1..Len(rows) :
                      /\ logs[i].trace_id = rows[i].trace_id
                      /\ logs[i].span_id = rows[i].span_id
                      /\ logs[i].error_type =
                            IF rows[i].error_type = None
                            THEN StrVal(<<"U", "n", "k", "n", "o", "w", "n">>)
                            ELSE rows[i].error_type
                      /\ logs[i].error_message =
                            IF rows[i].error_message = None
                            THEN StrVal(<<"N", "o", " ", "m", "e", "s", "s", "a", "g", "e">>)
                            ELSE rows[i].error_message
                      /\ logs[i].stacktrace = ExpectedStack(rows[i].stacktrace)
                      /\ logs[i].span_attributes = ExpectedAttr(rows[i].span_attributes)
                      /\ logs[i].resource_attributes =
                            ExpectedAttr(rows[i].resource_attributes)

----------------------------------------------------------------------------
(***************************************************************************)
(* Properties of ping.                                                     *)
(***************************************************************************)
Pinging(p) == proc[p].op = "ping"

C21_State ==
    \A p \in Callers :
        Pinging(p) =>
            /\ proc[p].pc \in {"connecting", "querying", "done"}
            /\ proc[p].waits = <<>>
            /\ proc[p].attempt = 0
            /\ proc[p].pc = "done" => proc[p].result \in {"True", "False"}

\* Every step of a ping moves forward: from awaiting the connection to the
\* query or to the result False, from the query to the result.
C21_Step ==
    \A p \in Callers :
        (Pinging(p) /\ proc'[p] # proc[p]) =>
            \/ /\ proc[p].pc = "connecting"
               /\ \/ proc'[p].pc = "querying" /\ proc'[p].handle # 0
                  \/ proc'[p].pc = "done" /\ proc'[p].result = "False"
            \/ /\ proc[p].pc = "querying"
               /\ proc'[p].pc = "done"
            \/ /\ proc[p].pc = "done"
               /\ proc'[p] = IdleProc

\* C21: ping makes one attempt and returns a boolean without raising: True
\* when the round trip completes, False when the connection cannot be created
\* or the query fails or times out; it never retries and never waits.
C21_PingSingleAttempt == []C21_State /\ [][C21_Step]_vars

C21_Witness ==
    \E p \in Callers :
        /\ Pinging(p) /\ proc[p].pc = "done"
        /\ proc[p].result = "False" /\ proc[p].handle # 0


----------------------------------------------------------------------------
(***************************************************************************)
(* Properties of analyze_batch                                             *)
(***************************************************************************)
AnDone == anPc = "done"

AllTimeouts ==
    /\ anReplies # <<>>
    /\ \A i \in DOMAIN anReplies : ReplyTag(anReplies[i]) = "timeout"

RECURSIVE PowerOfTwo(_)
PowerOfTwo(n) == IF n = 0 THEN 1 ELSE 2 * PowerOfTwo(n - 1)

C22_State ==
    AllTimeouts =>
        /\ anCalls <= MAX_RETRIES + 1
        /\ Len(anWaits) <= MAX_RETRIES
        /\ \A i \in DOMAIN anWaits : anWaits[i] = PowerOfTwo(i - 1)
        /\ anPc = "sleeping" => Len(anWaits) = anCalls
        /\ anPc = "calling" => Len(anWaits) = anCalls - 1
        /\ AnDone =>
            /\ anOut.raised = ""
            /\ "error" \in DOMAIN anOut.value
            /\ "retry_exhausted" \in DOMAIN anOut.value
            /\ anOut.value.retry_exhausted = TRUE
            /\ anCalls = MAX_RETRIES + 1
            /\ Len(anWaits) = MAX_RETRIES

\* C22: when every LLM call times out, analyze_batch waits 2^retry_count
\* before retry number retry_count + 1 (1, 2, 4, ... seconds), makes
\* MAX_RETRIES retries and no more, and every call of analyze_batch comes to
\* its end; a call whose LLM calls all timed out returns, without raising, an
\* object with the key "error" and retry_exhausted = true.
C22_TimeoutBackoff == []C22_State /\ ((anPc = "ready") ~> AnDone)

C22_Witness ==
    /\ AnDone
    /\ AllTimeouts
    /\ anIn # <<>>
    /\ anWaits = <<1, 2, 4>>
    /\ anOut.value = TimedOut

LastReply == anReplies[Len(anReplies)]

\* The replies before the last one are timeouts.
TimeoutsThen(tags) ==
    /\ anReplies # <<>>
    /\ \A i \in 1..(Len(anReplies) - 1) : ReplyTag(anReplies[i]) = "timeout"
    /\ ReplyTag(LastReply) \in tags

\* The bodies json.loads accepts: a JSON object, and a JSON value that is not
\* an object.
ValidJson == {"object", "array"}

BadReplies == {"raised", "nochoices", "none", "empty", "partial", "invalid"}

\* C24: a reply that is neither a timeout nor a JSON-parseable body (a failed
\* call, an empty choices list, a None content, an empty string, partial or
\* unparseable JSON) ends analyze_batch at once: it returns, without raising
\* and without another LLM call, an object that holds "error", no
\* retry_exhausted and no _meta.
C24_ErrorWithoutRetry ==
    (anReplies # <<>> /\ ReplyTag(LastReply) \in BadReplies) =>
        /\ AnDone
        /\ anCalls = Len(anReplies)
        /\ anOut.raised = ""
        /\ "error" \in DOMAIN anOut.value
        /\ "retry_exhausted" \notin DOMAIN anOut.value
        /\ "_meta" \notin DOMAIN anOut.value

C24_Witness ==
    /\ AnDone
    /\ Len(anReplies) = 2
    /\ ReplyTag(anReplies[1]) = "timeout"
    /\ ReplyTag(LastReply) = "none"
    /\ anOut.value = Failed

\* The row count in the header of the payload sent to the LLM: the number
\* after "exception_logs[".
PayloadHeader == SplitOn(anPayload, "NL")[1]
PayloadNamed ==
    /\ Len(PayloadHeader) > Len(ExceptionLogs) + 1
    /\ SubSeq(PayloadHeader, 1, Len(ExceptionLogs) + 1) = ExceptionLogs \o <<"[">>
PayloadCount ==
    DecimalValue(LeadingDigits(
        SubSeq(PayloadHeader, Len(ExceptionLogs) + 2, Len(PayloadHeader))))

\* C25: when the reply's body is a JSON object, analyze_batch returns an
\* object with the keys of that object and _meta, every key other than _meta
\* with the value the LLM gave it, whichever keys the object has; and
\* _meta.error_count is the number of records passed in, which is the row
\* count in the header of the payload, whose array name is exception_logs.
C25_ObjectWithMeta ==
    (anReplies # <<>> /\ ReplyTag(LastReply) = "object") =>
        LET obj == LastReply.content.obj IN
        /\ AnDone
        /\ anOut.raised = ""
        /\ DOMAIN anOut.value = DOMAIN obj \cup {"_meta"}
        /\ \A k \in DOMAIN obj \ {"_meta"} : anOut.value[k] = obj[k]
        /\ anOut.value["_meta"].error_count = Len(anIn)
        /\ PayloadNamed
        /\ PayloadCount = Len(anIn)

C25_Witness ==
    /\ AnDone
    /\ anReplies # <<>>
    /\ ReplyTag(LastReply) = "object"
    /\ DOMAIN LastReply.content.obj = {"note"}
    /\ Len(anIn) = MaxRecords
    /\ anOut.value["_meta"].error_count = MaxRecords
    /\ anOut.value["note"] = <<"llm", "note">>

----------------------------------------------------------------------------
(***************************************************************************)
(* Termination and outcomes of fetch_errors                                *)
(***************************************************************************)
InFetch(p) == proc[p].op = "fetch"

\* How far a call of fetch_errors has come: four positions for each attempt,
\* the last position for the call's end.
FetchProgress(pr) ==
    IF pr.pc = "done" THEN 4 * MAX_RETRIES
    ELSE 4 * pr.attempt + (IF pr.pc = "connecting" THEN 0
                           ELSE IF pr.pc = "querying" THEN 1 ELSE 2)

AttemptsMade(pr) == Len(pr.outcomes)

C26_State ==
    \A p \in Callers :
        InFetch(p) =>
            /\ proc[p].pc \in {"connecting", "querying", "sleeping", "done"}
            /\ AttemptsMade(proc[p]) <= MAX_RETRIES
            /\ proc[p].pc \in {"connecting", "querying"} =>
                  proc[p].attempt = AttemptsMade(proc[p])
            /\ proc[p].pc = "sleeping" =>
                  /\ proc[p].attempt + 1 = AttemptsMade(proc[p])
                  /\ Len(proc[p].waits) = AttemptsMade(proc[p])
            /\ proc[p].pc # "done" => proc[p].attempt < MAX_RETRIES
            /\ Len(proc[p].waits) <= MAX_RETRIES - 1
            /\ Len(proc[p].waits) <= AttemptsMade(proc[p])
            /\ proc[p].pc = "done" =>
                /\ proc[p].result \in {"ValueError", "records", "empty"}
                /\ proc[p].result = "ValueError" <=>
                      ~ValidParams(proc[p].limit, proc[p].window)
                /\ proc[p].result = "ValueError" => AttemptsMade(proc[p]) = 0
                /\ proc[p].result = "records" <=>
                      (AttemptsMade(proc[p]) > 0
                          /\ proc[p].outcomes[AttemptsMade(proc[p])] = "ok")
                /\ proc[p].result = "records" =>
                      proc[p].rows = proc[p].srcRows /\ proc[p].queryOk

C26_Step ==
    \A p \in Callers :
        (InFetch(p) /\ proc[p].pc # "done" /\ proc'[p] # proc[p]) =>
            /\ InFetch(p)'
            /\ FetchProgress(proc'[p]) > FetchProgress(proc[p])

\* C26: whatever the source does, a call of fetch_errors makes at most
\* MAX_RETRIES attempts and at most MAX_RETRIES - 1 waits, every step of the
\* call brings it nearer to its end, and every call comes to its end; at its
\* end it has raised the ValueError of the parameter validation (and made no
\* attempt), or returned the records of its last attempt, which succeeded, or
\* returned the empty list: nothing else leaves fetch_errors.
C26_FetchTerminates ==
    /\ []C26_State
    /\ [][C26_Step]_vars
    /\ \A p \in Callers : InFetch(p) ~> (proc[p].pc = "done")

C26_Witness ==
    \E p \in Callers :
        /\ InFetch(p) /\ proc[p].pc = "done"
        /\ proc[p].result = "empty"
        /\ AttemptsMade(proc[p]) = MAX_RETRIES
        /\ Len(proc[p].waits) = MAX_RETRIES - 1
        /\ proc[p].outcomes[1] = "timeout"

----------------------------------------------------------------------------
(***************************************************************************)
(* Properties of main()                                                    *)
(***************************************************************************)
PipelineSteps == {"fetch", "analyze", "print", "write", "close"}
IsStep(x) == x \in PipelineSteps
StepsBegun == SelectSeq(mainLog, IsStep)
Logged(x) == \E i \in DOMAIN mainLog : mainLog[i] = x
CloseCalls == Cardinality({i \in DOMAIN mainLog : mainLog[i] = "close"})
MainEnded == mainPc = "ended"

C27_State ==
    /\ CloseCalls <= 1
    /\ (mainPc \in {"closing", "ended"}) <=> (CloseCalls = 1)
    /\ \A i \in DOMAIN mainLog :
          mainLog[i] = "close" =>
              \A j \in DOMAIN mainLog : j > i => mainLog[j] = "CloseError"
    /\ mainPc = "closing" =>
          mainRaised = (IF Logged("CancelledError") THEN "CancelledError" ELSE "")
    /\ MainEnded =>
          mainRaised = (IF Logged("CloseError") THEN "CloseError"
                        ELSE IF Logged("CancelledError") THEN "CancelledError"
                        ELSE "")

\* C27: every execution of main() comes to its end, and in it repo.close() is
\* called exactly once and after every step of the pipeline that is begun,
\* whether fetch_errors returns nothing or raises, the analysis raises, the
\* output fails or all succeeds; an Exception or a KeyboardInterrupt raised by
\* fetch, analysis or output does not leave main(): only an exception of
\* close() itself, or one that is neither (a CancelledError), leaves it.
C27_CloseOnce == []C27_State /\ ((mainPc = "ready") ~> MainEnded)

C27_Witness ==
    /\ MainEnded
    /\ mainLog = <<"fetch", "analyze", "KeyboardInterrupt", "close">>
    /\ mainRaised = ""

PipelineOrder == <<"fetch", "analyze", "print", "write">>

\* fetch_errors has returned the empty list.
FetchedNothing ==
    /\ mainPc \in {"closing", "ended"}
    /\ mainErrors = <<>>
    /\ \A e \in Raisables : ~Logged(e)

C28_State ==
    /\ \E k \in 0..Len(PipelineOrder) :
          \/ StepsBegun = SubSeq(PipelineOrder, 1, k)
          \/ k >= 1 /\ StepsBegun = SubSeq(PipelineOrder, 1, k) \o <<"close">>
    /\ (anPc # "off" \/ anCalls > 0) => (Logged("analyze") /\ mainErrors # <<>>)
    /\ Logged("analyze") => anIn = mainErrors
    /\ Logged("print") => (anPc = "done" /\ anOut.raised = "")
    /\ FetchedNothing =>
          /\ StepsBegun = <<"fetch", "close">>
          /\ anPc = "off" /\ anCalls = 0
          /\ ~Logged("CloseError") => mainRaised = ""

\* C28: main() begins its steps in the order fetch, analysis, print, write,
\* the analysis on the records fetched and the output after the analysis has
\* returned; when fetch_errors returns the empty list the only other step is
\* the close: analyze_batch is not called, nothing is printed or written, and
\* main() ends without an exception.
C28_FetchAnalyzeOutput == []C28_State /\ [][mainPc = "ended" => mainPc' = "ended"]_vars

C28_Witness ==
    /\ MainEnded
    /\ mainLog = <<"fetch", "close">>
    /\ mainErrors = <<>>
    /\ mainRaised = ""
    /\ anCalls = 0

----------------------------------------------------------------------------
(***************************************************************************)
(* Properties of the constructor                                           *)
(***************************************************************************)
SafeChar(c) == IsAlnumChar(c) \/ c = "_"
OnlySafeChars(name) == \A i \in 1..Len(name) : SafeChar(name[i])
Restricted(name) == Lower(name) \in RestrictedNames

\* C29: for a name of one character or more, the constructor raises
\* ValueError exactly when the name holds a character other than a letter, a
\* digit or the underscore or is equal to 'system' or 'information_schema' in
\* any letter case; every other name is accepted and kept as the database.
C29_DatabaseNameRule ==
    (dbPc = "done" /\ dbIn # <<>>) =>
        /\ (dbOut.raised = "ValueError") <=> (~OnlySafeChars(dbIn) \/ Restricted(dbIn))
        /\ dbOut.raised = "" => dbOut.database = dbIn

----------------------------------------------------------------------------
(***************************************************************************)
(* Properties of close()                                                   *)
(***************************************************************************)
\* close() has returned to caller p after closing a connection.
ClosedConnection(p) ==
    /\ proc[p].op = "close"
    /\ proc[p].pc = "done"
    /\ proc[p].handle # 0

\* C30: when close() has returned on a connected repository the repository
\* holds no connection handle, and so no connection is closed a second time:
\* the calls of a connection's close() never outnumber the connections made.
C30_CloseClearsClient ==
    /\ \A p \in Callers : ClosedConnection(p) => client = 0
    /\ closeCalls <= created

----------------------------------------------------------------------------
(***************************************************************************)
(* The quoting decision on the escaped and on the original text            *)
(***************************************************************************)
LeadingSpace(s) == s # <<>> /\ s[1] = " "
TrailingSpace(s) == s # <<>> /\ s[Len(s)] = " "
HasStructural(s) == \E c \in StructuralChars : Contains(s, c)

\* C31: for every value that is not None and both delimiters, each condition
\* of the quoting decision has the same truth value on the escaped text as on
\* the original text (the delimiter, a leading space, a trailing space, a
\* structural character, emptiness), so the decision the code takes on the
\* escaped text, seen in the returned text being wrapped in quotes, is the
\* decision the same predicate gives on the original text.
C31_DecisionOnOriginal ==
    (EscDone /\ escIn.value.t # "null") =>
        LET s == Str(escIn.value)
            e == EscapeChars(s)
            d == escIn.delimiter
        IN  /\ Contains(e, d) <=> Contains(s, d)
            /\ LeadingSpace(e) <=> LeadingSpace(s)
            /\ TrailingSpace(e) <=> TrailingSpace(s)
            /\ HasStructural(e) <=> HasStructural(s)
            /\ (e = <<>>) <=> (s = <<>>)
            /\ NeedsQuotes(e, d) <=> NeedsQuotes(s, d)
            /\ Wrapped(escOut) <=> NeedsQuotes(s, d)
            /\ escOut = IF NeedsQuotes(s, d) THEN <<"DQ">> \o e \o <<"DQ">> ELSE e

C31_Witness ==
    /\ EscDone
    /\ escIn.value = StrVal(<<"TAB", "NL", "DQ">>)
    /\ escIn.delimiter = "|"
    /\ ~NeedsQuotes(Str(escIn.value), "|")
    /\ escOut = <<"BS", "t", "BS", "n", "BS", "DQ">>

----------------------------------------------------------------------------
(***************************************************************************)
(* The repository as an async context manager                              *)
(***************************************************************************)
InWith(p) == proc[p].op = "with"

C32_State ==
    \A p \in Callers :
        InWith(p) =>
            /\ proc[p].pc \in {"connecting", "body", "closing", "done"}
            /\ proc[p].pc = "connecting" => proc[p].outcomes = <<>>
            /\ proc[p].pc = "body" =>
                  /\ proc[p].handle # 0 /\ client = proc[p].handle
                  /\ proc[p].outcomes = <<>>
            /\ proc[p].pc = "closing" =>
                  /\ proc[p].handle # 0
                  /\ proc[p].outcomes \in {<<"ok">>, <<"raised">>}
            /\ proc[p].pc = "done" =>
                  /\ proc[p].outcomes = <<>> =>
                        (proc[p].result = "raised" /\ proc[p].handle = 0)
                  /\ proc[p].outcomes = <<"ok">> => proc[p].result = "ok"
                  /\ proc[p].outcomes = <<"raised">> => proc[p].result = "raised"

C32_Step ==
    \A p \in Callers :
        (InWith(p) /\ proc'[p] # proc[p]) =>
            \/ /\ proc[p].pc = "connecting"
               /\ \/ /\ proc'[p].pc = "body"
                     /\ created' = created + 1
                     /\ client' = proc'[p].handle
                  \/ /\ proc'[p].pc = "done"
                     /\ proc'[p].result = "raised"
                     /\ proc'[p].outcomes = <<>>
                     /\ closeCalls' = closeCalls
            \/ /\ proc[p].pc = "body"
               /\ proc'[p].pc = "closing"
               /\ proc'[p].handle = client
            \/ /\ proc[p].pc = "closing"
               /\ proc'[p].pc = "done"
               /\ closeCalls' = closeCalls + 1
            \/ /\ proc[p].pc = "done"
               /\ proc'[p] = IdleProc

\* C32: async with on the repository has a connection when the body starts
\* (created on entry when there was none); when the body ends, by completing
\* or by raising, close() is called and closes the connection, and then the
\* statement ends, normally after a body that completed and with the body's
\* exception after a body that raised; when the creation on entry fails the
\* failure leaves the statement, the body is not run and close() is not
\* called.
C32_ContextManager ==
    /\ []C32_State
    /\ [][C32_Step]_vars
    /\ \A p \in Callers :
          (InWith(p) /\ proc[p].pc \in {"connecting", "closing"})
              ~> (proc[p].pc \in {"body", "done"})

C32_Witness ==
    \E p \in Callers :
        /\ InWith(p) /\ proc[p].pc = "done"
        /\ proc[p].outcomes = <<"raised">>
        /\ proc[p].result = "raised"
        /\ closeCalls = 1 /\ created = 1

----------------------------------------------------------------------------
(***************************************************************************)
(* The retry budgets of analyze_batch and fetch_errors under timeouts      *)
(***************************************************************************)
FetchExhausted(p) == InFetch(p) /\ proc[p].pc = "done"

\* C33: when every LLM call times out, analyze_batch reports retry_exhausted
\* after exactly MAX_RETRIES + 1 LLM calls with the MAX_RETRIES waits 1, 2,
\* ..., 2^(MAX_RETRIES - 1) between them; when every query times out,
\* fetch_errors returns the empty list after exactly MAX_RETRIES attempts with
\* MAX_RETRIES - 1 waits: one LLM call and one wait more than the source
\* attempts and waits.
C33_OneCallMore ==
    /\ anCalls <= MAX_RETRIES + 1
    /\ AnDone =>
          /\ anOut = [raised |-> "", value |-> TimedOut]
          /\ anCalls = MAX_RETRIES + 1
          /\ Len(anWaits) = MAX_RETRIES
          /\ \A i \in DOMAIN anWaits : anWaits[i] = PowerOfTwo(i - 1)
    /\ \A p \in Callers :
          FetchExhausted(p) =>
              /\ proc[p].result = "empty"
              /\ AttemptsMade(proc[p]) = MAX_RETRIES
              /\ Len(proc[p].waits) = MAX_RETRIES - 1
              /\ AnDone =>
                    /\ anCalls = AttemptsMade(proc[p]) + 1
                    /\ anWaits = proc[p].waits \o <<PowerOfTwo(MAX_RETRIES - 1)>>

C33_Witness ==
    /\ AnDone
    /\ anCalls = 4
    /\ anWaits = <<1, 2, 4>>
    /\ \E p \in Callers :
          /\ FetchExhausted(p)
          /\ proc[p].outcomes = <<"timeout", "timeout", "timeout">>
          /\ proc[p].waits = <<1, 2>>

----------------------------------------------------------------------------
(***************************************************************************)
(* Concurrent calls of fetch_errors                                        *)
(***************************************************************************)
AllRetryable(o) == \A i \in DOMAIN o : IsRetryable(o[i])

\* What a call's own attempts say about it, whatever the other calls do.
OwnBudget(pr) ==
    LET n == AttemptsMade(pr) IN
    /\ n <= MAX_RETRIES
    /\ \A i \in 1..(n - 1) : IsRetryable(pr.outcomes[i])
    /\ \A i \in DOMAIN pr.waits : pr.waits[i] = PowerOfTwo(i - 1)
    /\ pr.pc \in {"connecting", "querying"} =>
          (pr.attempt = n /\ Len(pr.waits) = n)
    /\ pr.pc = "sleeping" =>
          (pr.attempt = n - 1 /\ Len(pr.waits) = n /\ n < MAX_RETRIES)
    /\ pr.pc = "done" =>
          /\ n >= 1
          /\ pr.result = (IF pr.outcomes[n] = "ok" THEN "records" ELSE "empty")
          /\ AllRetryable(pr.outcomes) => n = MAX_RETRIES
          /\ Len(pr.waits) = n - 1

C34_State == \A p \in Callers : InFetch(p) => OwnBudget(proc[p])

\* A step is a step of one call: no other call's record changes with it.
C34_Step ==
    \A p, q \in Callers : p # q => (proc'[p] = proc[p] \/ proc'[q] = proc[q])

\* C34: with fetch_errors calls running concurrently on one repository, every
\* call counts its own attempts and waits: it waits 1, 2, ... after its own
\* retryable failures, it ends with the records of its own successful
\* attempt, or empty after its own fatal failure, or empty after MAX_RETRIES
\* retryable failures of its own and never after fewer, and a step of one
\* call changes nothing of another call.
C34_OwnRetryBudget == []C34_State /\ [][C34_Step]_vars

\* Two calls at different positions of their retry loops await their queries
\* on the same connection at the same time.
C34_Witness ==
    \E p, q \in Callers :
        /\ p # q
        /\ InFetch(p) /\ InFetch(q)
        /\ proc[p].pc = "querying" /\ proc[q].pc = "querying"
        /\ proc[p].handle = proc[q].handle /\ proc[p].handle # 0
        /\ proc[p].attempt = MAX_RETRIES - 1 /\ proc[p].waits = <<1, 2>>
        /\ proc[q].attempt = 0 /\ proc[q].waits = <<>>

----------------------------------------------------------------------------
(***************************************************************************)
(* A failed connection creation.                                           *)
(***************************************************************************)

UsesClient(pr) == pr.op \in {"fetch", "ping", "get_client", "with"}

\* the step in which the factory's exception reaches caller p
CreateFailed(p) ==
    /\ proc[p].pc = "connecting"
    /\ proc'[p] # proc[p]
    /\ connFails' = connFails + 1

\* the failure is what the caller of _get_client gets: an outcome of the
\* attempt for fetch_errors, False for ping, the exception for the others
FailureSeen(p) ==
    IF proc[p].op = "fetch"
    THEN /\ Len(proc'[p].outcomes) = Len(proc[p].outcomes) + 1
         /\ proc'[p].outcomes[Len(proc'[p].outcomes)] \in FailKinds
    ELSE IF proc[p].op = "ping"
    THEN proc'[p].pc = "done" /\ proc'[p].result = "False"
    ELSE proc'[p].pc = "done" /\ proc'[p].result = "raised"

\* the step in which caller p starts a call or a fetch attempt that asks
\* _get_client for the connection
AsksForClient(p) ==
    /\ proc[p].pc \in {"idle", "sleeping"}
    /\ proc'[p].pc \notin {"idle", "sleeping", "done", "closing"}
    /\ UsesClient(proc'[p])

C35_State ==
    /\ (client = 0) = (created = 0)
    /\ client = 0 => \A p \in Callers : proc[p].handle = 0
    /\ factoryCalls = connFails + created
                        + Cardinality({p \in Callers : proc[p].pc = "connecting"})

C35_Step ==
    /\ \A p \in Callers :
          /\ CreateFailed(p) => (client = 0 /\ client' = 0 /\ FailureSeen(p))
          /\ (AsksForClient(p) /\ client = 0) =>
                (proc'[p].pc = "connecting" /\ factoryCalls' = factoryCalls + 1)
    /\ client' # client =>
          /\ created' = created + 1
          /\ client' = created'
          /\ \E p \in Callers : proc[p].pc = "connecting" /\ proc'[p].handle = client'

\* C35: when creating the connection fails inside _get_client, self._client
\* stays None and the failure reaches the caller, so the next fetch attempt,
\* ping or fetch call asks the factory again; self._client is assigned only
\* in a step in which a creation succeeded.
C35_FailedCreationLeavesNoHandle == []C35_State /\ [][C35_Step]_vars

\* a fetch whose first two creations failed is creating the connection a
\* third time, and nothing has been stored
C35_Witness ==
    \E p \in Callers :
        /\ proc[p].op = "fetch"
        /\ proc[p].pc = "connecting"
        /\ proc[p].attempt = MAX_RETRIES - 1
        /\ proc[p].outcomes = <<"db", "db">>
        /\ connFails = MAX_RETRIES - 1
        /\ factoryCalls = MAX_RETRIES
        /\ client = 0

----------------------------------------------------------------------------
(***************************************************************************)
(* One line per record.                                                    *)
(***************************************************************************)
LineBreaking == {"NL", "CR", "TAB"}

\* a batch of two records that hold the value in their message column
BatchHolding(v) ==
    LET r == << <<(<<"i", "d">>), StrVal(<<"7">>)>>, <<(<<"m", "s", "g">>), v>> >>
    IN  <<r, r>>

EncodedLines(data) ==
    SplitOn(FormatTabular(data, <<"e", "r", "r", "o", "r", "s">>).out, "NL")

\* C36: for every value and delimiter the text _escape_string returns holds
\* no raw newline, carriage return or tab, so in the encoding of a batch whose
\* records hold the value there is one line per record after the header, and
\* the line of a record is its fields joined by the delimiter.
C36_OneLinePerRecord ==
    EscDone =>
        LET data == BatchHolding(escIn.value)
            lines == EncodedLines(data)
        IN  /\ \A c \in LineBreaking : ~Contains(escOut, c)
            /\ Len(lines) = Len(data) + 1
            /\ \A r \in 1..Len(data) :
                  /\ lines[r + 1] = RowLine(data[r], Keys(data[1]), SelectDelimiter(data))
                  /\ \A c \in LineBreaking : ~Contains(lines[r + 1], c)

C36_Witness ==
    /\ EscDone
    /\ escIn.value = StrVal(<<"NL", "CR", "TAB">>)
    /\ escOut = <<"BS", "n", "BS", "r", "BS", "t">>
    /\ Len(EncodedLines(BatchHolding(escIn.value))) = 3

============================================================================
